---- MODULE Spec2Model ----
(***************************************************************************)
(* Verification model of appium-ios-remotexpc.                             *)
(*                                                                         *)
(*  SpecSplitter : LengthBasedSplitter (src/lib/plist/length-based-        *)
(*                 splitter.ts) fed a byte stream in arbitrary chunks.     *)
(*  SpecService  : PlistService request/response over one connection       *)
(*                 (src/lib/plist/plist-service.ts, plist-decoder.ts).     *)
(*  SpecLockdown : LockdownService construction, TLS upgrade and close     *)
(*                 (src/lib/lockdown/index.ts).                            *)
(*  SpecRegistry : TunnelRegistryServer and its HTTP handlers              *)
(*                 (src/lib/tunnel/tunnel-registry-server.ts).             *)
(*  SpecTunnel   : TunnelManagerService, its getTunnel and close calls     *)
(*                 interleaved at their awaits (src/lib/tunnel/index.ts).  *)
(*  SpecRsd      : extractServices and findService of RemoteXpcConnection  *)
(*                 (src/lib/remote-xpc/remote-xpc-connection.ts).          *)
(***************************************************************************)
EXTENDS Integers, Sequences, FiniteSets, TLC

VARIABLES
    \* ---- LengthBasedSplitter and its input stream
    frames,        \* the well-framed messages that were concatenated (input)
    stream,        \* the bytes the peer sends, in order (input)
    written,       \* how many bytes of stream have been written to the splitter
    buffer,        \* LengthBasedSplitter.buffer
    isXmlMode,     \* LengthBasedSplitter.isXmlMode
    pushed,        \* the messages pushed downstream, in order
    \* ---- PlistService
    reqCount,      \* requests sent so far on the connection
    serial,        \* TRUE while no request was sent with another still pending
    wire,          \* requests written to the socket the device has not answered
    arrivals,      \* plist messages decoded so far (count)
    wellFormedIn,  \* well-formed messages the socket has received (count)
    messageQueue,  \* PlistService._messageQueue
    awaitState,    \* per request: the state of its receivePlist promise
    awaitResult,   \* per request: the message it resolved with
    sentAfter,     \* per request: arrivals at the moment it was sent
    afterTimeout,  \* per request: the previous request had timed out
    pendingAtEnd,  \* requests pending when close() was called
    socketEnded,   \* socket.end() was called
    decoderErrored,\* the decoder raised 'error'
    \* ---- LockdownService
    viaFactory,    \* the caller uses createLockdownServiceByUDID
    upgradePc,     \* position of tryUpgradeToTLS
    pairRecord,    \* what usbmux.readPairRecord gave
    sessionShape,  \* shape of the StartSession response
    sslRequested,  \* the StartSession response had EnableSessionSSL true
    sessionSent,   \* StartSession was written to a socket not yet ended
    tlsConnectOpen,\* tls.connect was given a socket not yet ended
    tlsFailed,     \* the TLS handshake failed
    isTLS,         \* LockdownService._isTLS
    plistAfterTLS, \* LockdownService._plistAfterTLS exists
    handed,        \* createLockdownServiceByUDID returned the service
    plainEnded,    \* end() called on the underlying socket
    tlsEnded,      \* end() called on the TLS socket
    closeCalls,    \* number of close() calls
    carried,       \* stream of each sendAndReceive issued after the SSL response
    \* ---- TunnelRegistryServer
    tunnelsInfo,   \* the constructor's tunnelsInfo: "undefined" or the object "supplied"
    registryRef,   \* the object this.registry refers to
    heap,          \* the contents of the two registry objects
    listening,     \* start() has run
    clock,         \* Date.now()
    putCount,      \* PUT requests received so far
    pendingPuts,   \* updateTunnel calls suspended at their await
    overlapped,    \* an updateTunnel ran while another was suspended
    serialRegistry,\* the accepted PUTs applied one at a time, in the order they ran
    lastPut,       \* per udid: what the last accepted PUT stored
    response,      \* the last response written
    \* ---- TunnelManagerService
    tunnelAddr,    \* per tunnel created by connectToTunnelLockdown: its Address
    closerCalls,   \* per tunnel: how often its closer() was invoked
    entryActive,   \* per tunnel: isActive of the registry entry made for it
    entryXpc,      \* per tunnel: its registry entry has a remoteXPC
    tunnelRegistry,\* TunnelManagerService.tunnelRegistry: address -> entry (by tunnel)
    getting,       \* getTunnel calls suspended at an await
    closing,       \* closeTunnelByAddress calls suspended at an await
    closingAll,    \* closeAllTunnels calls suspended at their await
    closeCount,    \* close calls made so far
    cleared,       \* tunnels whose entry a clear() removed from the registry
    \* ---- RemoteXpcConnection
    catalog,       \* the services and ports the device lists, in order (input)
    dataText,      \* the text of the data event that carries them
    hasServices,   \* RemoteXpcConnection._services is defined
    services,      \* RemoteXpcConnection._services
    foundService,  \* what the last findService returned
    \* ---- HeartbeatService
    hbVariant,     \* which of the two sources of the class is running
    hbConn,        \* HeartbeatService._conn
    hbOpened,      \* heartbeat connections made so far
    hbEnded,       \* heartbeat connections close() was called on
    isHeartbeatRunning, \* HeartbeatService._isHeartbeatRunning
    hbQueue,       \* per connection: messages of the device not yet received
    hbLoop,        \* position of the start() call
    loopConn,      \* the connection the pending receive waits on
    hbInterval,    \* start()'s interval argument
    hbBlocking,    \* start()'s blocking argument
    startTime,     \* start()'s startTime
    hbClock,       \* Date.now(), in seconds
    startCalls,    \* start() calls made so far
    stoppedSince,  \* stop() has run and start() was not called since
    lastConsumer,  \* who took the last message off a queue
    \* ---- SyslogService
    isCapturing,   \* SyslogService.isCapturing
    packetListener,\* SyslogService.packetListener
    tmListeners,   \* the 'data' listeners registered on the tunnel manager
    listenersMade, \* listeners created so far
    sysConnection, \* SyslogService.connection
    sysOpened,     \* control connections made so far
    sysClosed,     \* control connections close() was called on
    sysStart,      \* per start() call: its position
    sysStopped,    \* stop() has completed and start() was not called since
    lastPacket,    \* payload of the last TCP packet delivered
    emitted,       \* the message events emitted for it
    \* ---- DiagnosticsService
    diagCalls,     \* the calls made: request, response shape, outcome
    lastDecodedResult, \* PlistServiceDecoder.lastDecodedResult: whose plist it holds
    ioCall,        \* the ioregistry call waiting for its response
    \* ---- RemoteXpcConnection.connect / close
    xpcIsConnected,\* RemoteXpcConnection._isConnected
    xpcSocket,     \* RemoteXpcConnection._socket
    xpcSockets,    \* per socket made by net.connect: its state
    xpcHandshake,  \* per socket: the state of Handshake.perform on it
    xpcCalls,      \* per connect() call: its promise and its socket
    xpcEnding,     \* end() calls whose callback has not run
    \* ---- sendUsbmuxPlistRequest
    muxSent,       \* per request sent on the socket: the tag in its header
    muxListeners,  \* the requests whose onData is registered on the socket
    muxOutcome,    \* per request: the state of its promise
    muxResolvedWith, \* per request: the response it resolved with
    muxAnswered,   \* the requests usbmuxd has answered
    muxClosed,     \* the socket emitted 'close'
    \* ---- HTTP/2 frames
    h2Frame,       \* the frame object the sender constructed
    h2Wire,        \* what its serialize() returned
    h2Parsed,      \* the frame object the receiver parsed from it
    \* ---- plist codec
    plValue,       \* the PlistValue given to the creator (input)
    plDoc,         \* the XML document created from it
    plParsed,      \* what parsePlist of the XML document returned
    plBuffer,      \* the binary plist created from plValue
    plBinaryParsed,  \* what parseBinaryPlist(plBuffer) returned
    plUnifiedParsed  \* what the unified parsePlist(plBuffer) returned

splitVars == <<frames, stream, written, buffer, isXmlMode, pushed>>
svcVars == <<reqCount, serial, wire, arrivals, wellFormedIn, messageQueue,
             awaitState, awaitResult, sentAfter, afterTimeout, pendingAtEnd,
             socketEnded, decoderErrored>>
lockVars == <<viaFactory, upgradePc, pairRecord, sessionShape, sslRequested,
              sessionSent, tlsConnectOpen,
              tlsFailed, isTLS, plistAfterTLS, handed, plainEnded, tlsEnded,
              closeCalls, carried>>
regVars == <<tunnelsInfo, registryRef, heap, listening, clock, putCount,
             pendingPuts, overlapped, serialRegistry, lastPut, response>>
tunVars == <<tunnelAddr, closerCalls, entryActive, entryXpc, tunnelRegistry,
             getting, closing, closingAll, closeCount, cleared>>
rsdVars == <<catalog, dataText, hasServices, services, foundService>>
hbVars == <<hbVariant, hbConn, hbOpened, hbEnded, isHeartbeatRunning, hbQueue,
            hbLoop, loopConn, hbInterval, hbBlocking, startTime, hbClock,
            startCalls, stoppedSince, lastConsumer>>
sysVars == <<isCapturing, packetListener, tmListeners, listenersMade,
             sysConnection, sysOpened, sysClosed, sysStart, sysStopped,
             lastPacket, emitted>>
diagVars == <<diagCalls, lastDecodedResult, ioCall>>
xpcVars == <<xpcIsConnected, xpcSocket, xpcSockets, xpcHandshake, xpcCalls,
             xpcEnding>>
muxVars == <<muxSent, muxListeners, muxOutcome, muxResolvedWith, muxAnswered,
             muxClosed>>
h2Vars == <<h2Frame, h2Wire, h2Parsed>>
plistVars == <<plValue, plDoc, plParsed, plBuffer, plBinaryParsed, plUnifiedParsed>>
vars == <<splitVars, svcVars, lockVars, regVars, tunVars, rsdVars, hbVars,
          sysVars, diagVars, xpcVars, muxVars, h2Vars, plistVars>>

----------------------------------------------------------------------------
(* Bounds of the model.  MaxFrameLength is the maxFrameLength option of    *)
(* the splitter, scaled down with the messages of the model.                *)

MaxMsgs == 2
MaxFrameLength == 64
MaxReq == 3
MaxCloseCalls == 2
MaxSends == 2
MaxTime == 1
MaxPuts == 2
MaxTunnels == 3
MaxCloses == 2
MaxItems == 6
MaxStarts == 2
MaxQueue == 2
MaxHbTime == 1
MaxSysStarts == 2
MaxPacketLen == 3
MaxDiagCalls == 2
MaxConnects == 2
MaxMuxRequests == 3
MaxPadLength == 2
MaxEntries == 2

----------------------------------------------------------------------------
(* Byte strings.  A byte is an integer 0..255; indices are 0-based as in    *)
(* the source, sequences are 1-based as in TLA+.                            *)

MAX_PREVIEW_LENGTH == 100
DEFAULT_LENGTH_FIELD_OFFSET == 0
DEFAULT_LENGTH_FIELD_LENGTH == 4
DEFAULT_LENGTH_ADJUSTMENT == 0

XML_DECL == <<60, 63, 120, 109, 108>>                    \* "<?xml"
PLIST_OPEN == <<60, 112, 108, 105, 115, 116>>            \* "<plist"
PLIST_CLOSE == <<60, 47, 112, 108, 105, 115, 116, 62>>   \* "</plist>"
BPLIST00 == <<98, 112, 108, 105, 115, 116, 48, 48>>      \* "bplist00"
REPLACEMENT == 65533                                     \* U+FFFD

Min(a, b) == IF a < b THEN a ELSE b

\* Buffer.slice(start, end): bytes start .. end-1, end clamped to the length
Slice(buf, start, end) == SubSeq(buf, start + 1, Min(end, Len(buf)))

\* Buffer.slice(start)
SliceFrom(buf, start) == SubSeq(buf, start + 1, Len(buf))

\* Buffer.toString('utf8'): one UTF-16 unit per ASCII byte, one unit per
\* well-formed 2-byte sequence, U+FFFD per byte that starts no sequence.
\* Units outside ASCII only ever get compared with ASCII markers, so they
\* are all written REPLACEMENT.  Bytes 0xE0..0xFF (3- and 4-byte leads) do
\* not occur in the streams of this model.
RECURSIVE Utf8ToString(_)
Utf8ToString(bytes) ==
    IF bytes = <<>> THEN <<>>
    ELSE IF bytes[1] < 128 THEN <<bytes[1]>> \o Utf8ToString(Tail(bytes))
    ELSE IF /\ bytes[1] >= 194 /\ bytes[1] <= 223 /\ Len(bytes) >= 2
            /\ bytes[2] >= 128 /\ bytes[2] <= 191
         THEN <<REPLACEMENT>> \o Utf8ToString(Tail(Tail(bytes)))
    ELSE <<REPLACEMENT>> \o Utf8ToString(Tail(bytes))

\* pat occurs in str at 0-based index i
OccursAt(str, pat, i) ==
    /\ i + Len(pat) <= Len(str)
    /\ \A k \in 1..Len(pat) : str[i + k] = pat[k]

\* String.prototype.indexOf(pat, from): -1 when absent
IndexOf(str, pat, from) ==
    LET hits == {i \in from..(Len(str) - Len(pat)) : OccursAt(str, pat, i)}
    IN IF hits = {} THEN -1 ELSE CHOOSE i \in hits : \A j \in hits : i <= j

Includes(str, pat) == IndexOf(str, pat, 0) >= 0

StartsWith(str, pat) == OccursAt(str, pat, 0)

\* buf.toString('utf8', 0, Math.min(MAX_PREVIEW_LENGTH, buf.length))
Preview(buf) == Utf8ToString(Slice(buf, 0, Min(MAX_PREVIEW_LENGTH, Len(buf))))

\* s.includes('<?xml') || s.includes('<plist')
HasXmlMarker(str) == Includes(str, XML_DECL) \/ Includes(str, PLIST_OPEN)

ReadUInt32BE(buf, off) ==
    buf[off + 1] * 16777216 + buf[off + 2] * 65536 + buf[off + 3] * 256 + buf[off + 4]

ReadUInt32LE(buf, off) ==
    buf[off + 4] * 16777216 + buf[off + 3] * 65536 + buf[off + 2] * 256 + buf[off + 1]

\* header.writeUInt32BE(n, 0)
WriteUInt32BE(n) ==
    <<(n \div 16777216) % 256, (n \div 65536) % 256, (n \div 256) % 256, n % 256>>

----------------------------------------------------------------------------
(* LengthBasedSplitter, as PlistService configures it: big-endian 4-byte    *)
(* length field at offset 0, no adjustment.  The splitter's state is the    *)
(* record [buffer, isXmlMode, out], out being what this.push() was given.   *)

\* LengthBasedSplitter.processXmlData
ProcessXmlData(st) ==
    LET fullBufferString == Utf8ToString(st.buffer)
        declIndex == IndexOf(fullBufferString, XML_DECL, 0)
    IN IF ~StartsWith(fullBufferString, XML_DECL) /\ declIndex < 0
       THEN st
       ELSE LET startIndex == IF StartsWith(fullBufferString, XML_DECL)
                              THEN 0 ELSE declIndex
                plistEndIndex == IndexOf(fullBufferString, PLIST_CLOSE, startIndex)
                endPos == plistEndIndex + Len(PLIST_CLOSE)
                xmlData == Slice(st.buffer, 0, endPos)
                rest == SliceFrom(st.buffer, Min(endPos, Len(st.buffer)))
            IN IF plistEndIndex >= 0
               THEN [buffer |-> rest,
                     isXmlMode |-> IF Len(rest) = 0 THEN FALSE
                                   ELSE HasXmlMarker(Preview(rest)),
                     out |-> Append(st.out, xmlData)]
               ELSE st

\* LengthBasedSplitter.processBinaryData, lengthFieldLength = 4, big-endian
RECURSIVE ProcessBinaryData(_)
ProcessBinaryData(st) ==
    IF Len(st.buffer) < DEFAULT_LENGTH_FIELD_OFFSET + DEFAULT_LENGTH_FIELD_LENGTH
    THEN st
    ELSE
      LET readLength == ReadUInt32BE(st.buffer, DEFAULT_LENGTH_FIELD_OFFSET)
                          + DEFAULT_LENGTH_ADJUSTMENT
          suspicious == readLength < 0 \/ readLength > MaxFrameLength
          alternateLength == ReadUInt32LE(st.buffer, DEFAULT_LENGTH_FIELD_OFFSET)
          alternateOk == alternateLength > 0 /\ alternateLength <= MaxFrameLength
          messageLength == IF suspicious THEN alternateLength ELSE readLength
          totalLength == DEFAULT_LENGTH_FIELD_OFFSET + DEFAULT_LENGTH_FIELD_LENGTH
                           + messageLength
          message == Slice(st.buffer, 0, totalLength)
      IN IF suspicious /\ ~alternateOk
         THEN IF HasXmlMarker(Preview(st.buffer))
              THEN [st EXCEPT !.isXmlMode = TRUE]
              ELSE ProcessBinaryData([st EXCEPT !.buffer = SliceFrom(st.buffer, 1)])
         ELSE IF Len(st.buffer) < totalLength
         THEN st
         ELSE IF HasXmlMarker(Preview(message))
         THEN [st EXCEPT !.isXmlMode = TRUE]
         ELSE ProcessBinaryData([st EXCEPT
                                   !.buffer = SliceFrom(st.buffer, totalLength),
                                   !.out = Append(st.out, message)])

\* LengthBasedSplitter._transform
Transform(st, chunk) ==
    LET buf == st.buffer \o chunk
        st1 == [st EXCEPT !.buffer = buf]
    IN IF HasXmlMarker(Preview(buf)) \/ st.isXmlMode
       THEN ProcessXmlData([st1 EXCEPT !.isXmlMode = TRUE])
       ELSE IF Len(buf) >= 8 /\ Utf8ToString(Slice(buf, 0, 8)) = BPLIST00
       THEN [st1 EXCEPT !.buffer = <<>>, !.out = Append(st.out, buf)]
       ELSE ProcessBinaryData(st1)

----------------------------------------------------------------------------
(* The peer's stream: well-framed messages, each a 4-byte big-endian length *)
(* prefix followed by that many payload bytes (PlistServiceEncoder).        *)

\* PlistServiceEncoder._transform: header + plist
Frame(payload) == WriteUInt32BE(Len(payload)) \o payload

\* payloads of the model: XML documents (bare, with the trailing newline XML
\* writers emit, with a two-byte UTF-8 character) and a binary plist
XmlDoc == XML_DECL \o PLIST_OPEN \o <<62>> \o PLIST_CLOSE
XmlDocNl == XmlDoc \o <<10>>
XmlDocUtf == XML_DECL \o PLIST_OPEN \o <<62, 195, 169>> \o PLIST_CLOSE
BinDoc == BPLIST00 \o <<0, 1>>
Payloads == {XmlDoc, XmlDocNl, XmlDocUtf, BinDoc}

RECURSIVE Concat(_)
Concat(ss) == IF ss = <<>> THEN <<>> ELSE Head(ss) \o Concat(Tail(ss))

\* 0-based offset in the stream just past frame i
RECURSIVE FrameEnd(_, _)
FrameEnd(fs, i) == IF i = 0 THEN 0 ELSE FrameEnd(fs, i - 1) + Len(fs[i])

SplitterInit ==
    /\ frames \in UNION {[1..n -> {Frame(p) : p \in Payloads}] : n \in 1..MaxMsgs}
    /\ stream = Concat(frames)
    /\ written = 0
    /\ buffer = <<>>
    /\ isXmlMode = FALSE
    /\ pushed = <<>>

\* stream.write(chunk) on the splitter, for a chunk of n bytes
Write(n) ==
    /\ written + n <= Len(stream)
    /\ LET st == Transform([buffer |-> buffer, isXmlMode |-> isXmlMode, out |-> <<>>],
                           SubSeq(stream, written + 1, written + n))
       IN /\ buffer' = st.buffer
          /\ isXmlMode' = st.isXmlMode
          /\ pushed' = pushed \o st.out
    /\ written' = written + n
    /\ UNCHANGED <<plistVars, h2Vars, muxVars, xpcVars, hbVars, sysVars, diagVars, frames, stream, svcVars, lockVars, regVars, tunVars, rsdVars>>

----------------------------------------------------------------------------
(* Streams that are not a concatenation of well-framed messages: bytes that *)
(* are no message before XML documents, a frame whose length prefix exceeds *)
(* maxFrameLength, a binary plist without a length prefix, and an XML       *)
(* document whose end has not arrived.  frames holds the messages the peer  *)
(* sent, stream the bytes on the wire.                                      *)

Filler(n, byte) == [i \in 1..n |-> byte]

\* bytes that precede the first "<?xml": text, four bytes that read as no
\* plausible length in either byte order, and four bytes that read as the
\* length 2
Garbages == {<<97, 98>>, <<127, 127, 127, 127>>, <<0, 0, 0, 2>>}

\* a payload one byte longer than maxFrameLength whose first bytes read as
\* a frame of one byte
OversizePayload == <<0, 0, 0, 1, 120>> \o Filler(MaxFrameLength - 4, 121)

\* an XML document longer than maxFrameLength
BigXmlDoc == XML_DECL \o PLIST_OPEN \o <<62>> \o Filler(MaxFrameLength, 121)
                \o PLIST_CLOSE

\* a binary plist as it is sent without a length prefix
BareBplist == BPLIST00 \o <<0, 1, 2, 3>>

\* an XML document longer than a frame may be, its end not yet sent
UnterminatedXml == XML_DECL \o PLIST_OPEN \o <<62>> \o Filler(MaxFrameLength, 121)

RawStreams ==
    {[sent |-> <<XmlDoc, XmlDoc>>, bytes |-> g \o XmlDoc \o XmlDoc] : g \in Garbages}
      \cup {[sent |-> <<Frame(OversizePayload), Frame(BinDoc)>>,
             bytes |-> Frame(OversizePayload) \o Frame(BinDoc)],
            [sent |-> <<Frame(BigXmlDoc)>>, bytes |-> Frame(BigXmlDoc)],
            [sent |-> <<BareBplist>>, bytes |-> BareBplist],
            [sent |-> <<UnterminatedXml>>, bytes |-> UnterminatedXml]}

\* sizes of the chunks the socket delivers the stream in: single bytes,
\* eight bytes, a whole bare binary plist
RawChunks == {1, 8, Len(BareBplist)}

RawInit ==
    /\ \E s \in RawStreams : frames = s.sent /\ stream = s.bytes
    /\ written = 0
    /\ buffer = <<>>
    /\ isXmlMode = FALSE
    /\ pushed = <<>>

----------------------------------------------------------------------------
(* PlistService over one socket.  Requests are numbered 1..MaxReq in the    *)
(* order they are sent; the device answers the requests it received in      *)
(* order.  A decoded message records its arrival number (seq) and the       *)
(* request it answers (re).                                                 *)

Requests == 1..MaxReq
NoMessage == [seq |-> 0, re |-> 0]
Pending == {r \in Requests : awaitState[r] = "pending"}

ServiceInit ==
    /\ reqCount = 0
    /\ serial = TRUE
    /\ wire = <<>>
    /\ arrivals = 0
    /\ wellFormedIn = 0
    /\ messageQueue = <<>>
    /\ awaitState = [r \in Requests |-> "idle"]
    /\ awaitResult = [r \in Requests |-> NoMessage]
    /\ sentAfter = [r \in Requests |-> 0]
    /\ afterTimeout = [r \in Requests |-> FALSE]
    /\ pendingAtEnd = {}
    /\ socketEnded = FALSE
    /\ decoderErrored = FALSE

\* PlistService.sendPlistAndReceive: sendPlist, then the synchronous start of
\* receivePlist (shift the queue; resolve at once when it gave a message)
SendPlistAndReceive ==
    /\ reqCount < MaxReq
    /\ LET r == reqCount + 1
       IN /\ reqCount' = r
          /\ serial' = (serial /\ Pending = {})
          /\ wire' = IF socketEnded THEN wire ELSE Append(wire, r)
          /\ sentAfter' = [sentAfter EXCEPT ![r] = arrivals]
          /\ afterTimeout' = [afterTimeout EXCEPT
                                ![r] = (r > 1 /\ awaitState[r - 1] = "timedout")]
          /\ IF messageQueue # <<>>
             THEN /\ messageQueue' = Tail(messageQueue)
                  /\ awaitState' = [awaitState EXCEPT ![r] = "resolved"]
                  /\ awaitResult' = [awaitResult EXCEPT ![r] = Head(messageQueue)]
             ELSE /\ awaitState' = [awaitState EXCEPT ![r] = "pending"]
                  /\ UNCHANGED <<messageQueue, awaitResult>>
    /\ UNCHANGED <<plistVars, h2Vars, muxVars, xpcVars, hbVars, sysVars, diagVars, splitVars, lockVars, regVars, tunVars, rsdVars, arrivals, wellFormedIn, pendingAtEnd, socketEnded, decoderErrored>>

\* receivePlist: the 50 ms setInterval callback of request r finds a message
CheckInterval(r) ==
    /\ awaitState[r] = "pending"
    /\ messageQueue # <<>>
    /\ messageQueue' = Tail(messageQueue)
    /\ awaitState' = [awaitState EXCEPT ![r] = "resolved"]
    /\ awaitResult' = [awaitResult EXCEPT ![r] = Head(messageQueue)]
    /\ UNCHANGED <<plistVars, h2Vars, muxVars, xpcVars, hbVars, sysVars, diagVars, splitVars, lockVars, regVars, tunVars, rsdVars, reqCount, serial, wire, arrivals, wellFormedIn, sentAfter,
                   afterTimeout, pendingAtEnd, socketEnded, decoderErrored>>

\* receivePlist: the setTimeout callback of request r rejects with
\* "Timed out waiting for plist response after <timeout>ms"
Timeout(r) ==
    /\ awaitState[r] = "pending"
    /\ awaitState' = [awaitState EXCEPT ![r] = "timedout"]
    /\ UNCHANGED <<plistVars, h2Vars, muxVars, xpcVars, hbVars, sysVars, diagVars, splitVars, lockVars, regVars, tunVars, rsdVars, reqCount, serial, wire, arrivals, wellFormedIn, messageQueue,
                   awaitResult, sentAfter, afterTimeout, pendingAtEnd, socketEnded,
                   decoderErrored>>

\* The device's answer to the oldest unanswered request reaches the socket
\* and runs through splitter and decoder.  PlistServiceDecoder._transform
\* pushes a parsed message, which the 'data' listener of the constructor
\* appends to _messageQueue; on a parse error it calls callback(err): the
\* Transform emits 'error' and is destroyed, and the splitter's pipe into it
\* is removed, so nothing reaches the decoder afterwards (handleError only
\* logs).
Decode(wellFormed) ==
    /\ wire # <<>>
    /\ wire' = Tail(wire)
    /\ wellFormedIn' = IF wellFormed THEN wellFormedIn + 1 ELSE wellFormedIn
    /\ IF decoderErrored
       THEN UNCHANGED <<arrivals, messageQueue, decoderErrored>>
       ELSE IF wellFormed
       THEN /\ arrivals' = arrivals + 1
            /\ messageQueue' = Append(messageQueue,
                                      [seq |-> arrivals + 1, re |-> Head(wire)])
            /\ UNCHANGED decoderErrored
       ELSE /\ decoderErrored' = TRUE
            /\ UNCHANGED <<arrivals, messageQueue>>
    /\ UNCHANGED <<plistVars, h2Vars, muxVars, xpcVars, hbVars, sysVars, diagVars, splitVars, lockVars, regVars, tunVars, rsdVars, reqCount, serial, awaitState, awaitResult, sentAfter,
                   afterTimeout, pendingAtEnd, socketEnded>>

\* PlistService.close (BasePlistService.close, ServiceConnection.close)
ServiceClose ==
    /\ socketEnded' = TRUE
    /\ pendingAtEnd' = IF socketEnded THEN pendingAtEnd ELSE Pending
    /\ UNCHANGED <<plistVars, h2Vars, muxVars, xpcVars, hbVars, sysVars, diagVars, splitVars, lockVars, regVars, tunVars, rsdVars, reqCount, serial, wire, arrivals, wellFormedIn, messageQueue,
                   awaitState, awaitResult, sentAfter, afterTimeout, decoderErrored>>

----------------------------------------------------------------------------
(* LockdownService with autoSecure (the default): the constructor starts    *)
(* tryUpgradeToTLS and keeps its promise, with a catch that logs, in        *)
(* _tlsUpgrade.                                                             *)

LockdownInit ==
    /\ viaFactory \in BOOLEAN
    /\ upgradePc = "getPairRecord"
    /\ pairRecord = "none"
    /\ sessionShape = "none"
    /\ sslRequested = FALSE
    /\ sessionSent = FALSE
    /\ tlsConnectOpen = FALSE
    /\ tlsFailed = FALSE
    /\ isTLS = FALSE
    /\ plistAfterTLS = FALSE
    /\ handed = FALSE
    /\ plainEnded = FALSE
    /\ tlsEnded = FALSE
    /\ closeCalls = 0
    /\ carried = <<>>

\* the caller holds the service: at once after new LockdownService(...),
\* after the return of createLockdownServiceByUDID otherwise
HasService == viaFactory => handed

\* getPairRecord and the check that follows it in tryUpgradeToTLS: a record
\* that cannot be read ("missing") or lacks a field ("malformed") makes
\* tryUpgradeToTLS return; a valid one sends StartSession
GetPairRecord(rec) ==
    /\ upgradePc = "getPairRecord"
    /\ pairRecord' = rec
    /\ upgradePc' = IF rec = "valid" THEN "startSession" ELSE "settled"
    /\ sessionSent' = (rec = "valid" /\ ~plainEnded)
    /\ UNCHANGED <<plistVars, h2Vars, muxVars, xpcVars, hbVars, sysVars, diagVars, splitVars, svcVars, regVars, tunVars, rsdVars, viaFactory, sessionShape, sslRequested,
                   tlsConnectOpen, tlsFailed, isTLS, plistAfterTLS, handed,
                   plainEnded, tlsEnded, closeCalls, carried>>

\* startSession returns or throws, and tryUpgradeToTLS goes on: "ssl" and
\* "nossl" are well-shaped responses with EnableSessionSSL true and false,
\* "unexpected" and "timeout" make startSession throw, which the catch of
\* the constructor logs.  A request written after end() never reaches the
\* device, so it can only time out.  On "ssl" upgradeSocketToTLS is called
\* at once (tls.connect on the socket).
StartSession(shape) ==
    /\ upgradePc = "startSession"
    /\ shape # "timeout" => sessionSent
    /\ sessionShape' = shape
    /\ tlsConnectOpen' = (shape = "ssl" /\ ~plainEnded)
    /\ sslRequested' = (shape = "ssl")
    /\ upgradePc' = IF shape = "ssl" THEN "handshake" ELSE "settled"
    /\ UNCHANGED <<plistVars, h2Vars, muxVars, xpcVars, hbVars, sysVars, diagVars, splitVars, svcVars, regVars, tunVars, rsdVars, viaFactory, pairRecord, sessionSent, tlsFailed,
                   isTLS, plistAfterTLS, handed, plainEnded, tlsEnded, closeCalls,
                   carried>>

\* upgradeSocketToTLS resolves (ok) or rejects; on ok tryUpgradeToTLS wraps
\* the TLS socket in a new PlistService and sets _isTLS.  A handshake begun
\* on a socket already ended cannot complete; whether one completes when
\* end() is called while it runs depends on what was already in flight, so
\* both outcomes are possible.
UpgradeSocketToTLS(ok) ==
    /\ upgradePc = "handshake"
    /\ ok => tlsConnectOpen
    /\ upgradePc' = "settled"
    /\ plistAfterTLS' = ok
    /\ isTLS' = ok
    /\ tlsFailed' = ~ok
    /\ UNCHANGED <<plistVars, h2Vars, muxVars, xpcVars, hbVars, sysVars, diagVars, splitVars, svcVars, regVars, tunVars, rsdVars, viaFactory, pairRecord, sessionShape, sslRequested,
                   sessionSent, tlsConnectOpen, handed, plainEnded, tlsEnded,
                   closeCalls, carried>>

\* createLockdownServiceByUDID: await service._tlsUpgrade, then return
CreateLockdownServiceByUDID ==
    /\ viaFactory
    /\ upgradePc = "settled"
    /\ ~handed
    /\ handed' = TRUE
    /\ UNCHANGED <<plistVars, h2Vars, muxVars, xpcVars, hbVars, sysVars, diagVars, splitVars, svcVars, regVars, tunVars, rsdVars, sessionSent, tlsConnectOpen, viaFactory,
                   upgradePc, pairRecord, sessionShape, sslRequested,
                   tlsFailed, isTLS, plistAfterTLS, plainEnded, tlsEnded,
                   closeCalls, carried>>

\* LockdownService.sendAndReceive called by the holder of the service
SendAndReceive ==
    /\ HasService
    /\ Len(carried) < MaxSends
    /\ carried' = Append(carried,
                         [via |-> IF isTLS /\ plistAfterTLS THEN "tls" ELSE "plain",
                          afterSsl |-> sslRequested])
    /\ UNCHANGED <<plistVars, h2Vars, muxVars, xpcVars, hbVars, sysVars, diagVars, splitVars, svcVars, regVars, tunVars, rsdVars, sessionSent, tlsConnectOpen, viaFactory,
                   upgradePc, pairRecord, sessionShape, sslRequested,
                   tlsFailed, isTLS, plistAfterTLS, handed, plainEnded, tlsEnded,
                   closeCalls>>

\* LockdownService.close: end() on the TLS socket when upgraded (which shuts
\* the wrapped socket down with it), on the plain socket otherwise
LockdownClose ==
    /\ HasService
    /\ closeCalls < MaxCloseCalls
    /\ closeCalls' = closeCalls + 1
    /\ IF isTLS /\ plistAfterTLS
       THEN tlsEnded' = TRUE /\ plainEnded' = TRUE
       ELSE plainEnded' = TRUE /\ UNCHANGED tlsEnded
    /\ UNCHANGED <<plistVars, h2Vars, muxVars, xpcVars, hbVars, sysVars, diagVars, splitVars, svcVars, regVars, tunVars, rsdVars, sessionSent, tlsConnectOpen, viaFactory,
                   upgradePc, pairRecord, sessionShape, sslRequested,
                   tlsFailed, isTLS, plistAfterTLS, handed, carried>>

----------------------------------------------------------------------------
(* TunnelRegistryServer (src/lib/tunnel/tunnel-registry-server.ts).  The    *)
(* server keeps this.registry, a reference to an object; loadRegistry makes *)
(* it refer to the object given to the constructor (tunnelsInfo) when there *)
(* is one.  heap holds the two objects the reference can point to.          *)

Udids == {"u1", "u2"}

NoEntry == [udid |-> "", deviceId |-> 0, createdAt |-> 0, lastUpdated |-> 0]

Metadata(n) == [totalTunnels |-> n, activeTunnels |-> n]

\* the registry a new server holds before anything is loaded
DefaultRegistry == [tunnels |-> [u \in {} |-> NoEntry], metadata |-> Metadata(0)]

\* a registry object as callers hand it to startTunnelRegistryServer: the
\* entries of some devices, created and last updated at time 0, with the
\* metadata that describes them
SuppliedRegistry(S) ==
    [tunnels |-> [u \in S |-> [udid |-> u,
                               deviceId |-> IF u = "u1" THEN 1 ELSE 2,
                               createdAt |-> 0,
                               lastUpdated |-> 0]],
     metadata |-> Metadata(Cardinality(S))]

\* JSON bodies of PUT requests that parse to an object; createdAt is the
\* client's stamp, taken in the millisecond the server started in
Bodies == [udid : Udids, deviceId : {1}, createdAt : {0}]

\* the body of a request as the client sent it: JSON text of an object, text
\* that is not JSON, or nothing
JsonBody(body) == [json |-> TRUE, value |-> body]
MalformedBody == [json |-> FALSE, value |-> [udid |-> "", deviceId |-> 0, createdAt |-> 0]]
NoBody == JsonBody([udid |-> "", deviceId |-> 0, createdAt |-> 0])

WithBody(req, raw) == [method |-> req.method, path |-> req.path, raw |-> raw]

\* ---- path segments and parseInt

\* the characters of the path segments used as :deviceId
Chars(seg) ==
    CASE seg = "9" -> <<"9">>
      [] seg = "1abc" -> <<"1", "a", "b", "c">>
      [] seg = "invalid" -> <<"i", "n", "v", "a", "l", "i", "d">>
      [] OTHER -> <<>>

DeviceIdSegments == {"9", "1abc", "invalid"}

DigitValue(c) ==
    CASE c = "0" -> 0 [] c = "1" -> 1 [] c = "2" -> 2 [] c = "3" -> 3
      [] c = "4" -> 4 [] c = "5" -> 5 [] c = "6" -> 6 [] c = "7" -> 7
      [] c = "8" -> 8 [] c = "9" -> 9 [] OTHER -> -1

IsDigit(c) == DigitValue(c) >= 0

NaN == -1

\* parseInt(s, 10) on an unsigned string: the value of the longest prefix of
\* decimal digits, NaN when that prefix is empty
RECURSIVE ParseDigits(_, _, _)
ParseDigits(cs, i, acc) ==
    IF i > Len(cs) \/ ~IsDigit(cs[i])
    THEN acc
    ELSE ParseDigits(cs, i + 1, 10 * acc + DigitValue(cs[i]))

ParseInt(cs) ==
    IF cs = <<>> \/ ~IsDigit(cs[1]) THEN NaN ELSE ParseDigits(cs, 1, 0)

\* the segment is the decimal notation of an integer
IsIntegerSegment(cs) ==
    cs # <<>> /\ \A i \in 1..Len(cs) : IsDigit(cs[i])

\* ---- routing (setupRoutes): the first route whose method and pattern
\* match handles the request; "none" when no route matches

BasePath == <<"remotexpc", "tunnels">>

Methods == {"GET", "PUT"}

Paths ==
    {BasePath}
      \cup {BasePath \o <<u>> : u \in Udids}
      \cup {BasePath \o <<"device", d>> : d \in DeviceIdSegments}
      \cup {<<"unknown", "route">>}

UnderBase(path, n) ==
    Len(path) = Len(BasePath) + n /\ SubSeq(path, 1, Len(BasePath)) = BasePath

Route(method, path) ==
    CASE method = "GET" /\ UnderBase(path, 0) -> "getAllTunnels"
      [] method = "GET" /\ UnderBase(path, 1) -> "getTunnelByUdid"
      [] method = "GET" /\ UnderBase(path, 2) /\ path[3] = "device"
            -> "getTunnelByDeviceId"
      [] method = "PUT" /\ UnderBase(path, 1) -> "updateTunnel"
      [] OTHER -> "none"

\* ---- the registry object and its metadata

\* a metadata update that counts the stores instead of the keys
UpdateMetadataByIncrement(reg) ==
    [reg EXCEPT !.metadata = Metadata(reg.metadata.totalTunnels + 1)]

\* updateMetadata: both counts become the number of keys of tunnels
UpdateMetadata(reg) ==
    [reg EXCEPT !.metadata = Metadata(Cardinality(DOMAIN reg.tunnels))]

\* this.registry.tunnels[udid] = {...tunnelData, lastUpdated: Date.now()}
SetTunnel(reg, udid, tunnelData, now) ==
    [reg EXCEPT !.tunnels =
        [u \in (DOMAIN reg.tunnels) \cup {udid} |->
            IF u = udid
            THEN [udid |-> tunnelData.udid,
                  deviceId |-> tunnelData.deviceId,
                  createdAt |-> tunnelData.createdAt,
                  lastUpdated |-> now]
            ELSE reg.tunnels[u]]]

\* a load that builds the registry anew on every call
LoadRegistryAnew(mem) ==
    [ref |-> "own", heap |-> [mem.heap EXCEPT !["own"] = DefaultRegistry]]

\* loadRegistry: with a tunnelsInfo, this.registry refers to that object
LoadRegistry(mem) ==
    [mem EXCEPT !.ref = IF tunnelsInfo # "undefined" THEN tunnelsInfo ELSE mem.ref]

Memory == [ref |-> registryRef, heap |-> heap]

Registry == heap[registryRef]

\* Object.values(tunnels).find(t => t.deviceId === deviceId); the keys are
\* visited in insertion order, of which only the set of matches is kept
FindByDeviceId(reg, deviceId) ==
    {u \in DOMAIN reg.tunnels : reg.tunnels[u].deviceId = deviceId}

\* ---- responses

NoRequest == [method |-> "", path |-> <<>>, raw |-> NoBody]

Response(req, route, status, type, error, tunnel, shown, changed) ==
    [req |-> req, route |-> route, status |-> status, type |-> type,
     error |-> error, tunnel |-> tunnel, shown |-> shown, changed |-> changed]

\* res.status(s).json({error: e})
JsonError(req, route, status, error, changed) ==
    Response(req, route, status, "json", error, NoEntry, DefaultRegistry, changed)

\* what Express answers when no middleware or route ends the request (its
\* final handler, 404) or when a middleware fails (express.json() on a body
\* that does not parse, 400): the status with an HTML page, not JSON
FinalHandler(req, route, status) ==
    Response(req, route, status, "html", "", NoEntry, DefaultRegistry, FALSE)

RegistryInit ==
    /\ tunnelsInfo \in {"undefined", "supplied"}
    /\ registryRef = "own"
    /\ \E S \in {{}, {"u1"}} :
          heap = [o \in {"own", "supplied"} |->
                     IF o = "supplied" /\ tunnelsInfo = "supplied"
                     THEN SuppliedRegistry(S) ELSE DefaultRegistry]
    /\ listening = FALSE
    /\ clock = 0
    /\ putCount = 0
    /\ pendingPuts = [i \in {} |-> NoEntry]
    /\ overlapped = FALSE
    /\ serialRegistry = IF tunnelsInfo = "supplied" THEN heap["supplied"] ELSE DefaultRegistry
    /\ lastPut = [u \in Udids |-> [stored |-> NoEntry, updating |-> FALSE]]
    /\ response = FinalHandler(NoRequest, "none", 0)

\* start(): loadRegistry, then listen
Start ==
    /\ ~listening
    /\ LET mem == LoadRegistry(Memory) IN
          /\ registryRef' = mem.ref
          /\ heap' = mem.heap
    /\ listening' = TRUE
    /\ UNCHANGED <<plistVars, h2Vars, muxVars, xpcVars, hbVars, sysVars, diagVars, splitVars, svcVars, lockVars, tunVars, rsdVars,
                   tunnelsInfo, clock, putCount, pendingPuts, overlapped,
                   serialRegistry, lastPut, response>>

\* Date.now() moves on between two events
Tick ==
    /\ listening
    /\ clock < MaxTime
    /\ clock' = clock + 1
    /\ UNCHANGED <<plistVars, h2Vars, muxVars, xpcVars, hbVars, sysVars, diagVars, splitVars, svcVars, lockVars, tunVars, rsdVars,
                   tunnelsInfo, registryRef, heap, listening, putCount,
                   pendingPuts, overlapped, serialRegistry, lastPut, response>>

\* getAllTunnels: the registry object is the response body
GetAllTunnels(req) ==
    /\ listening
    /\ Route(req.method, req.path) = "getAllTunnels"
    /\ LET mem == LoadRegistry(Memory) IN
          /\ registryRef' = mem.ref
          /\ heap' = mem.heap
          /\ response' = Response(WithBody(req, NoBody), "getAllTunnels", 200, "json", "",
                                  NoEntry, mem.heap[mem.ref], FALSE)
    /\ UNCHANGED <<plistVars, h2Vars, muxVars, xpcVars, hbVars, sysVars, diagVars, splitVars, svcVars, lockVars, tunVars, rsdVars,
                   tunnelsInfo, listening, clock, putCount, pendingPuts,
                   overlapped, serialRegistry, lastPut>>

\* getTunnelByUdid
GetTunnelByUdid(req) ==
    /\ listening
    /\ Route(req.method, req.path) = "getTunnelByUdid"
    /\ LET mem == LoadRegistry(Memory)
           reg == mem.heap[mem.ref]
           udid == req.path[3]
       IN /\ registryRef' = mem.ref
          /\ heap' = mem.heap
          /\ response' =
                IF udid \notin DOMAIN reg.tunnels
                THEN JsonError(WithBody(req, NoBody), "getTunnelByUdid", 404, "Tunnel not found", FALSE)
                ELSE Response(WithBody(req, NoBody), "getTunnelByUdid", 200, "json", "",
                              reg.tunnels[udid], DefaultRegistry, FALSE)
    /\ UNCHANGED <<plistVars, h2Vars, muxVars, xpcVars, hbVars, sysVars, diagVars, splitVars, svcVars, lockVars, tunVars, rsdVars,
                   tunnelsInfo, listening, clock, putCount, pendingPuts,
                   overlapped, serialRegistry, lastPut>>

\* getTunnelByDeviceId: parseInt of the path segment, then the first entry
\* with that deviceId
GetTunnelByDeviceId(req) ==
    /\ listening
    /\ Route(req.method, req.path) = "getTunnelByDeviceId"
    /\ LET mem == LoadRegistry(Memory)
           reg == mem.heap[mem.ref]
           deviceId == ParseInt(Chars(req.path[4]))
           found == FindByDeviceId(reg, deviceId)
       IN /\ registryRef' = mem.ref
          /\ heap' = mem.heap
          /\ IF deviceId = NaN
             THEN response' = JsonError(WithBody(req, NoBody), "getTunnelByDeviceId", 400,
                                        "Invalid device ID", FALSE)
             ELSE IF found = {}
             THEN response' = JsonError(WithBody(req, NoBody), "getTunnelByDeviceId", 404,
                                        "Tunnel not found", FALSE)
             ELSE \E u \in found :
                     response' = Response(WithBody(req, NoBody), "getTunnelByDeviceId", 200, "json",
                                          "", reg.tunnels[u], DefaultRegistry, FALSE)
    /\ UNCHANGED <<plistVars, h2Vars, muxVars, xpcVars, hbVars, sysVars, diagVars, splitVars, svcVars, lockVars, tunVars, rsdVars,
                   tunnelsInfo, listening, clock, putCount, pendingPuts,
                   overlapped, serialRegistry, lastPut>>

\* a PUT whose body express.json() cannot parse: the middleware fails, the
\* route is not entered, and with no error-handling middleware installed
\* Express's final handler writes the answer
PutMalformedJson(req) ==
    /\ listening
    /\ Route(req.method, req.path) = "updateTunnel"
    /\ response' = FinalHandler(WithBody(req, MalformedBody), "updateTunnel", 400)
    /\ UNCHANGED <<plistVars, h2Vars, muxVars, xpcVars, hbVars, sysVars, diagVars, splitVars, svcVars, lockVars, tunVars, rsdVars,
                   tunnelsInfo, registryRef, heap, listening, clock, putCount,
                   pendingPuts, overlapped, serialRegistry, lastPut>>

\* updateTunnel up to its await: express.json() has parsed the body,
\* loadRegistry has run, the rest of the handler is queued
UpdateTunnelBegin(req, body) ==
    /\ listening
    /\ Route(req.method, req.path) = "updateTunnel"
    /\ putCount < MaxPuts
    /\ LET mem == LoadRegistry(Memory) IN
          /\ registryRef' = mem.ref
          /\ heap' = mem.heap
    /\ putCount' = putCount + 1
    /\ pendingPuts' = [i \in (DOMAIN pendingPuts) \cup {putCount + 1} |->
                          IF i = putCount + 1
                          THEN [req |-> WithBody(req, JsonBody(body)),
                                udid |-> req.path[3], body |-> body]
                          ELSE pendingPuts[i]]
    /\ UNCHANGED <<plistVars, h2Vars, muxVars, xpcVars, hbVars, sysVars, diagVars, splitVars, svcVars, lockVars, tunVars, rsdVars,
                   tunnelsInfo, listening, clock, overlapped, serialRegistry,
                   lastPut, response>>

\* updateTunnel after its await, which runs to the end without yielding: the
\* udid check, the store, updateMetadata and the response
UpdateTunnel(id) ==
    /\ id \in DOMAIN pendingPuts
    /\ LET p == pendingPuts[id]
           reg == Registry
           new == UpdateMetadata(SetTunnel(reg, p.udid, p.body, clock))
       IN IF p.body.udid # p.udid
          THEN /\ response' = JsonError(p.req, "updateTunnel", 400,
                                        "UDID mismatch between path and body", FALSE)
               /\ UNCHANGED <<heap, serialRegistry, lastPut>>
          ELSE /\ heap' = [heap EXCEPT ![registryRef] = new]
               /\ response' = Response(p.req, "updateTunnel", 200, "json", "",
                                       new.tunnels[p.udid], DefaultRegistry,
                                       new # reg)
               /\ serialRegistry' =
                     UpdateMetadata(SetTunnel(serialRegistry, p.udid, p.body, clock))
               /\ lastPut' = [lastPut EXCEPT ![p.udid] =
                                 [stored |-> new.tunnels[p.udid],
                                  updating |-> p.udid \in DOMAIN reg.tunnels]]
    /\ pendingPuts' = [i \in (DOMAIN pendingPuts) \ {id} |-> pendingPuts[i]]
    /\ overlapped' = (overlapped \/ DOMAIN pendingPuts # {id})
    /\ UNCHANGED <<plistVars, h2Vars, muxVars, xpcVars, hbVars, sysVars, diagVars, splitVars, svcVars, lockVars, tunVars, rsdVars,
                   tunnelsInfo, registryRef, listening, clock, putCount>>

\* a request no route matches: Express's final handler answers it
UnknownRoute(req) ==
    /\ listening
    /\ Route(req.method, req.path) = "none"
    /\ response' = FinalHandler(WithBody(req, NoBody), "none", 404)
    /\ UNCHANGED <<plistVars, h2Vars, muxVars, xpcVars, hbVars, sysVars, diagVars, splitVars, svcVars, lockVars, tunVars, rsdVars,
                   tunnelsInfo, registryRef, heap, listening, clock, putCount,
                   pendingPuts, overlapped, serialRegistry, lastPut>>

----------------------------------------------------------------------------
(* TunnelManagerService (src/lib/tunnel/index.ts).  Tunnels are numbered in *)
(* the order connectToTunnelLockdown creates them; a registry entry is an   *)
(* object made for one tunnel, so entries are named by their tunnel.  The   *)
(* lastUsed timestamps are left out: nothing reads them.                    *)

Addresses == {"a1", "a2"}

Tunnels == 1..Len(tunnelAddr)

TunnelInit ==
    /\ tunnelAddr = <<>>
    /\ closerCalls = <<>>
    /\ entryActive = <<>>
    /\ entryXpc = <<>>
    /\ tunnelRegistry = [a \in {} |-> 0]
    /\ getting = {}
    /\ closing = {}
    /\ closingAll = {}
    /\ closeCount = 0
    /\ cleared = {}

\* this.tunnelRegistry.get(address)?.isActive
IsActive(address) ==
    address \in DOMAIN tunnelRegistry /\ entryActive[tunnelRegistry[address]]

\* isTunnelOpen / getActiveTunnels
GetActiveTunnels == {a \in DOMAIN tunnelRegistry : entryActive[tunnelRegistry[a]]}

NoTunnel == 0

\* getTunnelByAddress(address): the entry's tunnel when the entry is found
\* and active, null otherwise
GetTunnelByAddress(address) ==
    IF IsActive(address) THEN tunnelRegistry[address] ELSE NoTunnel

\* a tunnel is open from its creation until its closer is invoked
IsOpen(t) == closerCalls[t] = 0

\* this.tunnelRegistry.set(address, {tunnel, lastUsed, isActive: true})
RegistrySet(reg, address, t) ==
    [a \in (DOMAIN reg) \cup {address} |-> IF a = address THEN t ELSE reg[a]]

\* getTunnel up to its first await: connectToTunnelLockdown has created a
\* tunnel with some address and the rest of getTunnel is queued
ConnectToTunnelLockdown(address) ==
    /\ Len(tunnelAddr) < MaxTunnels
    /\ tunnelAddr' = Append(tunnelAddr, address)
    /\ closerCalls' = Append(closerCalls, 0)
    /\ entryActive' = Append(entryActive, FALSE)
    /\ entryXpc' = Append(entryXpc, FALSE)
    /\ getting' = getting \cup {[tunnel |-> Len(tunnelAddr) + 1, pc |-> "connected"]}
    /\ UNCHANGED <<plistVars, h2Vars, muxVars, xpcVars, hbVars, sysVars, diagVars, splitVars, svcVars, lockVars, regVars, rsdVars,
                   tunnelRegistry, closing, closingAll, closeCount, cleared>>

\* getTunnel from the registry lookup on.  With an active entry for the
\* address and a tunnel whose tunnelManager can emit (functional), the new
\* tunnel's closer is invoked and awaited; with an active entry and a tunnel
\* that fails that check, the entry is marked inactive and replaced; with no
\* active entry the new tunnel is registered.
GetTunnel(g, functional) ==
    /\ g \in getting
    /\ g.pc = "connected"
    /\ LET t == g.tunnel
           address == tunnelAddr[t]
       IN IF IsActive(address) /\ functional
          THEN /\ closerCalls' = [closerCalls EXCEPT ![t] = @ + 1]
               /\ getting' = (getting \ {g}) \cup {[g EXCEPT !.pc = "closingRedundant"]}
               /\ UNCHANGED <<entryActive, tunnelRegistry>>
          ELSE /\ entryActive' =
                     [e \in Tunnels |->
                         IF e = t THEN TRUE
                         ELSE IF IsActive(address) /\ e = tunnelRegistry[address]
                              THEN FALSE
                              ELSE entryActive[e]]
               /\ tunnelRegistry' = RegistrySet(tunnelRegistry, address, t)
               /\ getting' = getting \ {g}
               /\ UNCHANGED closerCalls
    /\ UNCHANGED <<plistVars, h2Vars, muxVars, xpcVars, hbVars, sysVars, diagVars, splitVars, svcVars, lockVars, regVars, rsdVars,
                   tunnelAddr, entryXpc, closing, closingAll, closeCount, cleared>>

\* getTunnel after the redundant tunnel's closer settled: the existing
\* tunnel is returned
GetTunnelReturnExisting(g) ==
    /\ g \in getting
    /\ g.pc = "closingRedundant"
    /\ getting' = getting \ {g}
    /\ UNCHANGED <<plistVars, h2Vars, muxVars, xpcVars, hbVars, sysVars, diagVars, splitVars, svcVars, lockVars, regVars, rsdVars,
                   tunnelAddr, closerCalls, entryActive, entryXpc,
                   tunnelRegistry, closing, closingAll, closeCount, cleared>>

\* createDeviceConnectionPair after remoteXPC.connect(): the entry found
\* under the tunnel's address gets the connection
SetRemoteXpc(address) ==
    /\ address \in DOMAIN tunnelRegistry
    /\ ~entryXpc[tunnelRegistry[address]]
    /\ entryXpc' = [entryXpc EXCEPT ![tunnelRegistry[address]] = TRUE]
    /\ UNCHANGED <<plistVars, h2Vars, muxVars, xpcVars, hbVars, sysVars, diagVars, splitVars, svcVars, lockVars, regVars, rsdVars,
                   tunnelAddr, closerCalls, entryActive, tunnelRegistry,
                   getting, closing, closingAll, closeCount, cleared>>

\* closeTunnelByAddress up to its first await, for the calls id makes on the
\* addresses of as: nothing for an address without an active entry; for an
\* active entry with a remoteXPC, remoteXPC.close() is awaited; for one
\* without, the tunnel's closer is invoked and awaited
CloseCalls(id, as) ==
    {[id |-> id,
      entry |-> tunnelRegistry[a],
      pc |-> IF entryXpc[tunnelRegistry[a]] THEN "remoteXpc" ELSE "closer"] :
        a \in as \cap GetActiveTunnels}

CloserInvoked(calls) ==
    [t \in Tunnels |->
        IF \E c \in calls : c.entry = t /\ c.pc = "closer"
        THEN closerCalls[t] + 1
        ELSE closerCalls[t]]

CloseTunnelByAddress(address) ==
    /\ closeCount < MaxCloses
    /\ closeCount' = closeCount + 1
    /\ LET calls == CloseCalls(closeCount + 1, {address}) IN
          /\ closing' = closing \cup calls
          /\ closerCalls' = CloserInvoked(calls)
    /\ UNCHANGED <<plistVars, h2Vars, muxVars, xpcVars, hbVars, sysVars, diagVars, splitVars, svcVars, lockVars, regVars, rsdVars,
                   tunnelAddr, entryActive, entryXpc, tunnelRegistry, getting,
                   closingAll, cleared>>

\* closeTunnelByAddress after remoteXPC.close() settled: the closer is
\* invoked and awaited
CloseTunnelAfterRemoteXpc(c) ==
    /\ c \in closing
    /\ c.pc = "remoteXpc"
    /\ closerCalls' = [closerCalls EXCEPT ![c.entry] = @ + 1]
    /\ closing' = (closing \ {c}) \cup {[c EXCEPT !.pc = "closer"]}
    /\ UNCHANGED <<plistVars, h2Vars, muxVars, xpcVars, hbVars, sysVars, diagVars, splitVars, svcVars, lockVars, regVars, rsdVars,
                   tunnelAddr, entryActive, entryXpc, tunnelRegistry, getting,
                   closingAll, closeCount, cleared>>

\* this.tunnelRegistry.clear()
RegistryClear(reg) == [a \in {} |-> 0]

\* closeTunnelByAddress after the closer settled: finally, isActive = false.
\* When this was the last close a closeAllTunnels call awaited, that call
\* resumes in the same turn of the event loop and clears the registry.
CloseTunnelFinally(c) ==
    /\ c \in closing
    /\ c.pc = "closer"
    /\ entryActive' = [entryActive EXCEPT ![c.entry] = FALSE]
    /\ closing' = closing \ {c}
    /\ IF c.id \in closingAll /\ \A d \in closing \ {c} : d.id # c.id
       THEN /\ closingAll' = closingAll \ {c.id}
            /\ cleared' = cleared \cup {tunnelRegistry[a] : a \in DOMAIN tunnelRegistry}
            /\ tunnelRegistry' = RegistryClear(tunnelRegistry)
       ELSE UNCHANGED <<closingAll, cleared, tunnelRegistry>>
    /\ UNCHANGED <<plistVars, h2Vars, muxVars, xpcVars, hbVars, sysVars, diagVars, splitVars, svcVars, lockVars, regVars, rsdVars,
                   tunnelAddr, closerCalls, entryXpc, getting, closeCount>>

\* closeAllTunnels up to its await: closeTunnelByAddress is called for every
\* active address; with none, the registry is cleared at once
CloseAllTunnels ==
    /\ closeCount < MaxCloses
    /\ closeCount' = closeCount + 1
    /\ LET calls == CloseCalls(closeCount + 1, DOMAIN tunnelRegistry) IN
          /\ closing' = closing \cup calls
          /\ closerCalls' = CloserInvoked(calls)
          /\ IF calls = {}
             THEN /\ cleared' = cleared \cup {tunnelRegistry[a] : a \in DOMAIN tunnelRegistry}
                  /\ tunnelRegistry' = RegistryClear(tunnelRegistry)
                  /\ UNCHANGED closingAll
             ELSE /\ closingAll' = closingAll \cup {closeCount + 1}
                  /\ UNCHANGED <<cleared, tunnelRegistry>>
    /\ UNCHANGED <<plistVars, h2Vars, muxVars, xpcVars, hbVars, sysVars, diagVars, splitVars, svcVars, lockVars, regVars, rsdVars,
                   tunnelAddr, entryActive, entryXpc, getting>>

----------------------------------------------------------------------------
(* RemoteXpcConnection and extractServices (src/lib/remote-xpc/             *)
(* remote-xpc-connection.ts).  The text of a data event is a sequence of    *)
(* pieces: a service name (com.apple.x), the word Port, a run of decimal    *)
(* digits, or other text without digits.                                     *)

ServiceNames == {"com.apple.A", "com.apple.B", "com.apple.C"}
PortNumbers == {"1", "2", "3"}
OtherText == "x"

ServiceItem(name) == [type |-> "service", value |-> name]
PortItem(number) == [type |-> "port", value |-> number]

CatalogItems ==
    {ServiceItem(n) : n \in ServiceNames} \cup {PortItem(p) : p \in PortNumbers}

RECURSIVE SeqsUpTo(_, _)
SeqsUpTo(S, n) ==
    IF n = 0 THEN {<<>>}
    ELSE LET shorter == SeqsUpTo(S, n - 1) IN
         shorter \cup {Append(s, x) : s \in {t \in shorter : Len(t) = n - 1}, x \in S}

\* the text a device sends for a list of services and ports: each name is
\* preceded by other text, each port number by the word Port and other text
RECURSIVE Render(_)
Render(items) ==
    IF items = <<>> THEN <<>>
    ELSE (IF Head(items).type = "service"
          THEN <<OtherText, Head(items).value>>
          ELSE <<"Port", OtherText, Head(items).value>>) \o Render(Tail(items))

\* the first run of digits at or after piece j, 0 when there is none
RECURSIVE NextDigits(_, _)
NextDigits(text, j) ==
    IF j > Len(text) THEN 0
    ELSE IF text[j] \in PortNumbers THEN j
    ELSE NextDigits(text, j + 1)

\* response.matchAll(/com\.apple(?:\.[\w-]+)+|Port[^0-9]*(\d+)/g) from piece
\* i on: a service name matches the first alternative; the word Port matches
\* the second together with everything up to and including the next run of
\* digits, when there is one; anything else is passed over
RECURSIVE MatchAll(_, _)
MatchAll(text, i) ==
    IF i > Len(text) THEN <<>>
    ELSE IF text[i] \in ServiceNames
    THEN <<ServiceItem(text[i])>> \o MatchAll(text, i + 1)
    ELSE IF text[i] = "Port" /\ NextDigits(text, i + 1) > 0
    THEN <<PortItem(text[NextDigits(text, i + 1)])>>
            \o MatchAll(text, NextDigits(text, i + 1) + 1)
    ELSE MatchAll(text, i + 1)

\* the look-ahead of extractServices: the value of the first port item at
\* or after j, "" when there is none
RECURSIVE NextPort(_, _)
NextPort(items, j) ==
    IF j > Len(items) THEN ""
    ELSE IF items[j].type = "port" THEN items[j].value
    ELSE NextPort(items, j + 1)

\* a variant of the pairing loop that lists every name with the next port
RECURSIVE PairEveryName(_, _)
PairEveryName(items, i) ==
    IF i > Len(items) THEN <<>>
    ELSE IF items[i].type = "service"
    THEN <<[serviceName |-> items[i].value, port |-> NextPort(items, i + 1)]>>
            \o PairEveryName(items, i + 1)
    ELSE PairEveryName(items, i + 1)

\* the pairing loop of extractServices from item i on
RECURSIVE PairServices(_, _)
PairServices(items, i) ==
    IF i > Len(items) THEN <<>>
    ELSE IF items[i].type = "service"
            /\ ~(i + 1 <= Len(items) /\ items[i + 1].type = "service")
    THEN <<[serviceName |-> items[i].value, port |-> NextPort(items, i + 1)]>>
            \o PairServices(items, i + 1)
    ELSE PairServices(items, i + 1)

ExtractServices(text) == PairServices(MatchAll(text, 1), 1)

NoService == [serviceName |-> "", port |-> ""]

\* services.find(service => service.serviceName === serviceName); NoService
\* stands for the error thrown when there is none
RECURSIVE Find(_, _, _)
Find(list, serviceName, i) ==
    IF i > Len(list) THEN NoService
    ELSE IF list[i].serviceName = serviceName THEN list[i]
    ELSE Find(list, serviceName, i + 1)

RsdInit ==
    /\ catalog \in SeqsUpTo(CatalogItems, MaxItems)
    /\ dataText = Render(catalog)
    /\ hasServices = FALSE
    /\ services = <<>>
    /\ foundService = NoService

\* the socket's data handler in connect(), for a buffer of more than 100
\* bytes: the services extracted from it become _services
OnData ==
    /\ hasServices' = TRUE
    /\ services' = ExtractServices(dataText)
    /\ UNCHANGED <<plistVars, h2Vars, muxVars, xpcVars, hbVars, sysVars, diagVars, splitVars, svcVars, lockVars, regVars, tunVars,
                   catalog, dataText, foundService>>

\* findService (getServices throws while _services is undefined)
FindService(serviceName) ==
    /\ hasServices
    /\ foundService' = Find(services, serviceName, 1)
    /\ UNCHANGED <<plistVars, h2Vars, muxVars, xpcVars, hbVars, sysVars, diagVars, splitVars, svcVars, lockVars, regVars, tunVars,
                   catalog, dataText, hasServices, services>>

----------------------------------------------------------------------------
(* RemoteXpcConnection.connect and close (src/lib/remote-xpc/               *)
(* remote-xpc-connection.ts 36-117).  Sockets are numbered in the order     *)
(* net.connect creates them; a connect() call that passes the _isConnected  *)
(* test creates one socket.  Handshake.perform, whose source is not part of *)
(* the tree, either resolves or rejects.                                    *)

NoSocket == 0

XpcSockets == 1..Len(xpcSockets)

\* the sockets net.connect has created and that are not closed
XpcOpenSockets == {s \in XpcSockets : xpcSockets[s] # "closed"}

\* whether connect() call k was made and its promise is still pending
XpcPending(k) == k <= Len(xpcCalls) /\ xpcCalls[k].state = "pending"

\* resolve / reject of the promise connect() returned: the first one settles it
Settle(calls, k, outcome) ==
    IF calls[k].state = "pending" THEN [calls EXCEPT ![k].state = outcome] ELSE calls

\* the call whose promise the handlers of socket s settle
CallOf(s) == CHOOSE k \in 1..Len(xpcCalls) : xpcCalls[k].socket = s

XpcInit ==
    /\ xpcIsConnected = FALSE
    /\ xpcSocket = NoSocket
    /\ xpcSockets = <<>>
    /\ xpcHandshake = <<>>
    /\ xpcCalls = <<>>
    /\ xpcEnding = {}

\* connect(): 'Already connected' when _isConnected, else net.connect and the
\* registration of the handlers
XpcConnect ==
    /\ Len(xpcCalls) < MaxConnects
    /\ IF xpcIsConnected
       THEN /\ xpcCalls' = Append(xpcCalls, [state |-> "rejectedAlreadyConnected",
                                             socket |-> NoSocket])
            /\ UNCHANGED <<xpcSocket, xpcSockets, xpcHandshake>>
       ELSE /\ xpcSockets' = Append(xpcSockets, "connecting")
            /\ xpcHandshake' = Append(xpcHandshake, "none")
            /\ xpcSocket' = Len(xpcSockets) + 1
            /\ xpcCalls' = Append(xpcCalls, [state |-> "pending",
                                             socket |-> Len(xpcSockets) + 1])
    /\ UNCHANGED <<plistVars, h2Vars, muxVars, splitVars, svcVars, lockVars, regVars, tunVars, rsdVars,
                   hbVars, sysVars, diagVars, xpcIsConnected, xpcEnding>>

\* the socket's 'connect' handler up to its await: _isConnected = true and,
\* with a _socket, Handshake.perform is started on it
XpcOnConnect(s) ==
    /\ s \in XpcSockets
    /\ xpcSockets[s] = "connecting"
    /\ xpcSockets' = [xpcSockets EXCEPT ![s] = "open"]
    /\ xpcIsConnected' = TRUE
    /\ xpcHandshake' = [xpcHandshake EXCEPT ![s] =
                           IF xpcSocket # NoSocket THEN "performing" ELSE "resolved"]
    /\ UNCHANGED <<plistVars, h2Vars, muxVars, splitVars, svcVars, lockVars, regVars, tunVars, rsdVars,
                   hbVars, sysVars, diagVars, xpcSocket, xpcCalls, xpcEnding>>

\* Handshake.perform resolved: the 'connect' handler returns
XpcHandshakeResolves(s) ==
    /\ s \in XpcSockets
    /\ xpcHandshake[s] = "performing"
    /\ xpcHandshake' = [xpcHandshake EXCEPT ![s] = "resolved"]
    /\ UNCHANGED <<plistVars, h2Vars, muxVars, splitVars, svcVars, lockVars, regVars, tunVars, rsdVars,
                   hbVars, sysVars, diagVars, xpcIsConnected, xpcSocket,
                   xpcSockets, xpcCalls, xpcEnding>>

\* Handshake.perform rejected: the catch of the 'connect' handler awaits
\* close(), which calls end() on the _socket of that moment, and rejects
\* after it; without a _socket it rejects at once
XpcHandshakeRejects(s) ==
    /\ s \in XpcSockets
    /\ xpcHandshake[s] = "performing"
    /\ xpcSocket # NoSocket => xpcSockets[xpcSocket] = "open"
    /\ xpcHandshake' = [xpcHandshake EXCEPT ![s] = "rejected"]
    /\ IF xpcSocket # NoSocket
       THEN /\ xpcEnding' = xpcEnding \cup {[socket |-> xpcSocket, rejects |-> CallOf(s)]}
            /\ xpcSockets' = [xpcSockets EXCEPT ![xpcSocket] = "ending"]
            /\ UNCHANGED xpcCalls
       ELSE /\ xpcCalls' = Settle(xpcCalls, CallOf(s), "rejected")
            /\ UNCHANGED <<xpcEnding, xpcSockets>>
    /\ UNCHANGED <<plistVars, h2Vars, muxVars, splitVars, svcVars, lockVars, regVars, tunVars, rsdVars,
                   hbVars, sysVars, diagVars, xpcIsConnected, xpcSocket>>

\* the socket's 'error' handler (once); the socket is closed after it
XpcOnError(s) ==
    /\ s \in XpcSockets
    /\ xpcSockets[s] # "closed"
    /\ xpcSockets' = [xpcSockets EXCEPT ![s] = "closed"]
    /\ xpcIsConnected' = FALSE
    /\ xpcCalls' = Settle(xpcCalls, CallOf(s), "rejected")
    /\ UNCHANGED <<plistVars, h2Vars, muxVars, splitVars, svcVars, lockVars, regVars, tunVars, rsdVars,
                   hbVars, sysVars, diagVars, xpcSocket, xpcHandshake, xpcEnding>>

\* the socket's 'data' handler for a buffer of more than 100 bytes: the
\* promise is resolved with the services extracted from it (a shorter
\* buffer changes nothing)
XpcOnData(s) ==
    /\ s \in XpcSockets
    /\ xpcSockets[s] \in {"open", "ending"}
    /\ xpcCalls[CallOf(s)].state = "pending"
    /\ xpcCalls' = Settle(xpcCalls, CallOf(s), "resolved")
    /\ UNCHANGED <<plistVars, h2Vars, muxVars, splitVars, svcVars, lockVars, regVars, tunVars, rsdVars,
                   hbVars, sysVars, diagVars, xpcIsConnected, xpcSocket,
                   xpcSockets, xpcHandshake, xpcEnding>>

\* the socket's 'close' handler, when the peer or the network closed it
XpcOnClose(s) ==
    /\ s \in XpcSockets
    /\ xpcSockets[s] \in {"open", "ending"}
    /\ xpcSockets' = [xpcSockets EXCEPT ![s] = "closed"]
    /\ xpcIsConnected' = FALSE
    /\ UNCHANGED <<plistVars, h2Vars, muxVars, splitVars, svcVars, lockVars, regVars, tunVars, rsdVars,
                   hbVars, sysVars, diagVars, xpcSocket, xpcHandshake, xpcCalls,
                   xpcEnding>>

\* close() called by the user of an established connection, up to the
\* callback of end()
XpcClose ==
    /\ xpcSocket # NoSocket
    /\ xpcSockets[xpcSocket] = "open"
    /\ xpcEnding' = xpcEnding \cup {[socket |-> xpcSocket, rejects |-> 0]}
    /\ xpcSockets' = [xpcSockets EXCEPT ![xpcSocket] = "ending"]
    /\ UNCHANGED <<plistVars, h2Vars, muxVars, splitVars, svcVars, lockVars, regVars, tunVars, rsdVars,
                   hbVars, sysVars, diagVars, xpcIsConnected, xpcSocket,
                   xpcHandshake, xpcCalls>>

\* the callback of end(): the fields are cleared and close() resolves; a
\* 'connect' handler's catch that awaited it rejects
XpcCloseEnd(e) ==
    /\ e \in xpcEnding
    /\ xpcEnding' = xpcEnding \ {e}
    /\ xpcSockets' = [xpcSockets EXCEPT ![e.socket] = "closed"]
    /\ xpcSocket' = NoSocket
    /\ xpcIsConnected' = FALSE
    /\ xpcCalls' = IF e.rejects # 0 THEN Settle(xpcCalls, e.rejects, "rejected")
                   ELSE xpcCalls
    /\ UNCHANGED <<plistVars, h2Vars, muxVars, splitVars, svcVars, lockVars, regVars, tunVars, rsdVars,
                   hbVars, sysVars, diagVars, xpcHandshake>>

----------------------------------------------------------------------------
(* sendUsbmuxPlistRequest (src/lib/Plist/usbmux-request.ts 14-105).  The    *)
(* requests made on one socket are numbered in the order they are sent; a   *)
(* data event carries one complete plist response, which usbmuxd sent in    *)
(* answer to one of the requests and which echoes that request's tag.       *)

MuxRequests == 1..MaxMuxRequests

\* header.writeUInt32LE(1, 12): the tag field of the 16-byte header
HeaderTag == 1

NoResponse == [answers |-> 0, tag |-> 0]

MuxInit ==
    /\ muxSent = <<>>
    /\ muxListeners = {}
    /\ muxOutcome = <<>>
    /\ muxResolvedWith = <<>>
    /\ muxAnswered = {}
    /\ muxClosed = FALSE

\* sendUsbmuxPlistRequest up to its return: header and payload are written,
\* the timeout is set and the 'data', 'error' and 'close' handlers registered
MuxSend ==
    /\ ~muxClosed
    /\ Len(muxSent) < MaxMuxRequests
    /\ muxSent' = Append(muxSent, HeaderTag)
    /\ muxListeners' = muxListeners \cup {Len(muxSent) + 1}
    /\ muxOutcome' = Append(muxOutcome, "pending")
    /\ muxResolvedWith' = Append(muxResolvedWith, NoResponse)
    /\ UNCHANGED <<plistVars, h2Vars, splitVars, svcVars, lockVars, regVars, tunVars, rsdVars,
                   hbVars, sysVars, diagVars, xpcVars, muxAnswered, muxClosed>>

\* a data event with usbmuxd's response to request i: every registered
\* onData sees '</plist>' in it, removes itself and resolves with it
MuxOnData(i) ==
    /\ ~muxClosed
    /\ i \in 1..Len(muxSent)
    /\ i \notin muxAnswered
    /\ muxAnswered' = muxAnswered \cup {i}
    /\ muxListeners' = {}
    /\ muxOutcome' = [r \in 1..Len(muxSent) |->
                         IF r \in muxListeners THEN "resolved" ELSE muxOutcome[r]]
    /\ muxResolvedWith' = [r \in 1..Len(muxSent) |->
                              IF r \in muxListeners
                              THEN [answers |-> i, tag |-> muxSent[i]]
                              ELSE muxResolvedWith[r]]
    /\ UNCHANGED <<plistVars, h2Vars, splitVars, svcVars, lockVars, regVars, tunVars, rsdVars,
                   hbVars, sysVars, diagVars, xpcVars, muxSent, muxClosed>>

\* the timeout of request r: its onData is removed and the promise rejected
MuxTimeout(r) ==
    /\ r \in muxListeners
    /\ muxListeners' = muxListeners \ {r}
    /\ muxOutcome' = [muxOutcome EXCEPT ![r] = "timedOut"]
    /\ UNCHANGED <<plistVars, h2Vars, splitVars, svcVars, lockVars, regVars, tunVars, rsdVars,
                   hbVars, sysVars, diagVars, xpcVars, muxSent, muxResolvedWith,
                   muxAnswered, muxClosed>>

\* the socket's 'close': every request still waiting is rejected
MuxOnClose ==
    /\ ~muxClosed
    /\ muxSent # <<>>
    /\ muxClosed' = TRUE
    /\ muxListeners' = {}
    /\ muxOutcome' = [r \in 1..Len(muxSent) |->
                         IF r \in muxListeners THEN "rejected" ELSE muxOutcome[r]]
    /\ UNCHANGED <<plistVars, h2Vars, splitVars, svcVars, lockVars, regVars, tunVars, rsdVars,
                   hbVars, sysVars, diagVars, xpcVars, muxSent, muxResolvedWith,
                   muxAnswered>>

----------------------------------------------------------------------------
(* HTTP/2 frames (src/unnamed/part_013 193-663): Frame, SettingsFrame,      *)
(* DataFrame and HeadersFrame.  A frame object is a record of its fields;   *)
(* flags and definedFlags are sets of flag names.  The receiving side       *)
(* builds the frame of the header's type for the header's stream id, calls  *)
(* parseFlags with the header's flag byte and parseBody with the body.      *)

STREAM_ASSOC_HAS_STREAM == "has-stream"
STREAM_ASSOC_NO_STREAM == "no-stream"

\* the value the field initializer gives streamAssociation: the frame
\* classes assign theirs after super() has returned
InitialStreamAssociation == "null"

TYPE_DATA == 0
TYPE_HEADERS == 1
TYPE_SETTINGS == 4

MAX_CONCURRENT_STREAMS == 3

\* the bit of a flag: ACK and END_STREAM 0x01, END_HEADERS 0x04,
\* PADDED 0x08, PRIORITY 0x20
FlagBit(name) ==
    CASE name = "ACK" -> 1
      [] name = "END_STREAM" -> 1
      [] name = "END_HEADERS" -> 4
      [] name = "PADDED" -> 8
      [] name = "PRIORITY" -> 32

\* flagByte & bit, for a bit that is a power of two
HasBit(flagByte, bit) == (flagByte \div bit) % 2 = 1

RECURSIVE SumBits(_)
SumBits(names) ==
    IF names = {} THEN 0
    ELSE LET n == CHOOSE n \in names : TRUE
         IN FlagBit(n) + SumBits(names \ {n})

\* Struct.pack / unpack of the fields 'H', 'B' and 'L' (big-endian)
PackH(v) == <<(v \div 256) % 256, v % 256>>
PackB(v) == <<v % 256>>
PackL(v) == WriteUInt32BE(v)
UnpackH(buf, off) == buf[off + 1] * 256 + buf[off + 2]

Zeros(n) == [i \in 1..n |-> 0]

InvalidFrame == [class |-> "thrown", type |-> -1, streamAssociation |-> "null",
                 streamId |-> 0, flags |-> {}, definedFlags |-> {}, data |-> <<>>,
                 padLength |-> 0, dependsOn |-> 0, streamWeight |-> 0,
                 exclusive |-> FALSE, settings |-> <<>>]

NoFrame == [InvalidFrame EXCEPT !.class = "none"]

\* the two tests of the Frame constructor
StreamIdRejected(streamId, streamAssociation) ==
    \/ streamId = 0 /\ streamAssociation = STREAM_ASSOC_HAS_STREAM
    \/ streamId # 0 /\ streamAssociation = STREAM_ASSOC_NO_STREAM

\* Frame constructor, run by super(streamId, flags): the fields have their
\* initial values, the flags are added by name
FrameConstructor(streamId, flags) ==
    IF StreamIdRejected(streamId, InitialStreamAssociation) THEN InvalidFrame
    ELSE [InvalidFrame EXCEPT !.class = "Frame", !.streamId = streamId,
                              !.flags = flags]

\* new SettingsFrame(streamId, settings, flags); settings is the list of
\* the pairs (setting, value), empty for null
NewSettingsFrame(streamId, settings, flags) ==
    LET base == FrameConstructor(streamId, flags)
    IN IF base = InvalidFrame THEN InvalidFrame
       ELSE IF settings # <<>> /\ "ACK" \in flags THEN InvalidFrame
       ELSE [base EXCEPT !.class = "SettingsFrame", !.definedFlags = {"ACK"},
                         !.type = TYPE_SETTINGS,
                         !.streamAssociation = STREAM_ASSOC_NO_STREAM,
                         !.settings = settings]

\* new DataFrame(streamId, data, flags)
NewDataFrame(streamId, data, flags) ==
    LET base == FrameConstructor(streamId, flags)
    IN IF base = InvalidFrame THEN InvalidFrame
       ELSE [base EXCEPT !.class = "DataFrame",
                         !.definedFlags = {"END_STREAM", "PADDED"},
                         !.type = TYPE_DATA,
                         !.streamAssociation = STREAM_ASSOC_HAS_STREAM,
                         !.data = data]

\* new HeadersFrame(streamId, data, flags): definedFlags are the flags given
NewHeadersFrame(streamId, data, flags) ==
    LET base == FrameConstructor(streamId, flags)
    IN IF base = InvalidFrame THEN InvalidFrame
       ELSE [base EXCEPT !.class = "HeadersFrame", !.definedFlags = flags,
                         !.type = TYPE_HEADERS,
                         !.streamAssociation = STREAM_ASSOC_HAS_STREAM,
                         !.data = data]

\* serializePaddingData, of DataFrame and of HeadersFrame
SerializePaddingData(f) ==
    IF "PADDED" \in f.flags THEN PackB(f.padLength) ELSE <<>>

\* serializePriorityData: STRUCT_LB.pack(dependsOn + (exclusive ? 0x80000000 : 0),
\* streamWeight), for a dependsOn below 2^31: the exclusive bit is the top
\* bit of the first byte
SerializePriorityData(f) ==
    LET word == PackL(f.dependsOn)
    IN <<word[1] + (IF f.exclusive THEN 128 ELSE 0), word[2], word[3], word[4]>>
         \o PackB(f.streamWeight)

RECURSIVE PackSettings(_)
PackSettings(settings) ==
    IF settings = <<>> THEN <<>>
    ELSE PackH(settings[1][1] % 256) \o PackL(settings[1][2])
           \o PackSettings(Tail(settings))

\* serializeBody of the three classes
SerializeBody(f) ==
    CASE f.class = "SettingsFrame" ->
            IF "ACK" \in f.flags THEN <<>> ELSE PackSettings(f.settings)
      [] f.class = "DataFrame" ->
            SerializePaddingData(f) \o f.data \o Zeros(f.padLength)
      [] f.class = "HeadersFrame" ->
            SerializePaddingData(f)
              \o (IF "PRIORITY" \in f.flags THEN SerializePriorityData(f) ELSE <<>>)
              \o f.data \o Zeros(f.padLength)

\* Frame.serialize: the 9-byte header and the body
Serialize(f) ==
    LET body == SerializeBody(f)
        flagsVal == SumBits(f.definedFlags \cap f.flags)
    IN PackH((Len(body) \div 256) % 65536) \o PackB(Len(body) % 256)
         \o PackB(f.type) \o PackB(flagsVal) \o PackL(f.streamId) \o body

\* Frame.parseFlags
ParseFlags(f, flagByte) ==
    [f EXCEPT !.flags = @ \cup {n \in f.definedFlags : HasBit(flagByte, FlagBit(n))}]

\* parsePaddingData: the frame with its padLength, and the bytes consumed
ParsePaddingData(f, data) ==
    IF "PADDED" \in f.flags
    THEN IF Len(data) < 1 THEN [frame |-> InvalidFrame, length |-> 0]
         ELSE [frame |-> [f EXCEPT !.padLength = data[1]], length |-> 1]
    ELSE [frame |-> f, length |-> 0]

\* parsePriorityData: exclusive = Boolean(dependsOn >> 31) and
\* dependsOn & 0x7fffffff, read off the bytes
ParsePriorityData(f, data) ==
    IF Len(data) < 5 THEN InvalidFrame
    ELSE [f EXCEPT !.exclusive = data[1] >= 128,
                   !.dependsOn = ReadUInt32BE(<<data[1] % 128, data[2], data[3], data[4]>>, 0),
                   !.streamWeight = data[5]]

RECURSIVE ParseSettings(_, _)
ParseSettings(settings, data) ==
    IF data = <<>> THEN settings
    ELSE IF Len(data) < 6 THEN <<"thrown">>
    ELSE ParseSettings(Append(settings, <<UnpackH(data, 0), ReadUInt32BE(data, 2)>>),
                       SliceFrom(data, 6))

\* SettingsFrame.parseBody
ParseSettingsBody(f, data) ==
    IF "ACK" \in f.flags /\ Len(data) > 0 THEN InvalidFrame
    ELSE LET settings == ParseSettings(f.settings, data)
         IN IF settings = <<"thrown">> THEN InvalidFrame
            ELSE [f EXCEPT !.settings = settings]

\* DataFrame.parseBody
ParseDataBody(f, data) ==
    LET padded == ParsePaddingData(f, data)
        g == padded.frame
    IN IF g = InvalidFrame THEN InvalidFrame
       ELSE IF g.padLength # 0 /\ g.padLength >= Len(data) THEN InvalidFrame
       ELSE [g EXCEPT !.data = Slice(data, padded.length, Len(data) - g.padLength)]

\* HeadersFrame.parseBody
ParseHeadersBody(f, data) ==
    LET padded == ParsePaddingData(f, data)
        rest == SliceFrom(data, padded.length)
        g == IF padded.frame = InvalidFrame THEN InvalidFrame
             ELSE IF "PRIORITY" \in padded.frame.flags
                  THEN ParsePriorityData(padded.frame, rest)
                  ELSE padded.frame
        priorityDataLength == IF "PRIORITY" \in f.flags THEN 5 ELSE 0
    IN IF g = InvalidFrame THEN InvalidFrame
       ELSE IF g.padLength # 0 /\ g.padLength >= Len(rest) THEN InvalidFrame
       ELSE [g EXCEPT !.data = Slice(rest, priorityDataLength, Len(rest) - g.padLength)]

\* the receiving side, for the bytes of one frame
ParseFrame(bytes) ==
    LET type == bytes[4]
        flagByte == bytes[5]
        streamId == ReadUInt32BE(bytes, 5)
        body == SliceFrom(bytes, 9)
    IN CASE type = TYPE_SETTINGS ->
              LET f == NewSettingsFrame(streamId, <<>>, {})
              IN IF f = InvalidFrame THEN f
                 ELSE ParseSettingsBody(ParseFlags(f, flagByte), body)
         [] type = TYPE_DATA ->
              LET f == NewDataFrame(streamId, <<>>, {})
              IN IF f = InvalidFrame THEN f
                 ELSE ParseDataBody(ParseFlags(f, flagByte), body)
         [] type = TYPE_HEADERS ->
              LET f == NewHeadersFrame(streamId, <<>>, {})
              IN IF f = InvalidFrame THEN f
                 ELSE ParseHeadersBody(ParseFlags(f, flagByte), body)

StreamIds == {0, 1}
FrameDatas == {<<>>, <<7>>, <<7, 0>>}
PadLengths == 0..MaxPadLength
DependsOns == {0, 3}
StreamWeights == {0, 16}
SettingsLists == {<<>>, <<<<MAX_CONCURRENT_STREAMS, 100>>>>}

H2Init ==
    /\ h2Frame = NoFrame
    /\ h2Wire = <<>>
    /\ h2Parsed = NoFrame

\* new SettingsFrame(...)
H2NewSettings(streamId, settings, flags) ==
    /\ h2Frame = NoFrame
    /\ h2Frame' = NewSettingsFrame(streamId, settings, flags)
    /\ UNCHANGED <<plistVars, splitVars, svcVars, lockVars, regVars, tunVars, rsdVars,
                   hbVars, sysVars, diagVars, xpcVars, muxVars, h2Wire, h2Parsed>>

\* new DataFrame(...), and the pad length assigned when the frame is PADDED
H2NewData(streamId, data, flags, padLength) ==
    /\ h2Frame = NoFrame
    /\ padLength # 0 => "PADDED" \in flags
    /\ LET f == NewDataFrame(streamId, data, flags)
       IN h2Frame' = IF f = InvalidFrame THEN f ELSE [f EXCEPT !.padLength = padLength]
    /\ UNCHANGED <<plistVars, splitVars, svcVars, lockVars, regVars, tunVars, rsdVars,
                   hbVars, sysVars, diagVars, xpcVars, muxVars, h2Wire, h2Parsed>>

\* new HeadersFrame(...), the pad length assigned when the frame is PADDED
\* and the priority fields when it has PRIORITY
H2NewHeaders(streamId, data, flags, padLength, dependsOn, streamWeight, exclusive) ==
    /\ h2Frame = NoFrame
    /\ padLength # 0 => "PADDED" \in flags
    /\ "PRIORITY" \notin flags => (dependsOn = 0 /\ streamWeight = 0 /\ ~exclusive)
    /\ LET f == NewHeadersFrame(streamId, data, flags)
       IN h2Frame' = IF f = InvalidFrame THEN f
                     ELSE [f EXCEPT !.padLength = padLength, !.dependsOn = dependsOn,
                                    !.streamWeight = streamWeight,
                                    !.exclusive = exclusive]
    /\ UNCHANGED <<plistVars, splitVars, svcVars, lockVars, regVars, tunVars, rsdVars,
                   hbVars, sysVars, diagVars, xpcVars, muxVars, h2Wire, h2Parsed>>

\* frame.serialize()
H2Serialize ==
    /\ h2Frame \notin {NoFrame, InvalidFrame}
    /\ h2Wire = <<>>
    /\ h2Wire' = Serialize(h2Frame)
    /\ UNCHANGED <<plistVars, splitVars, svcVars, lockVars, regVars, tunVars, rsdVars,
                   hbVars, sysVars, diagVars, xpcVars, muxVars, h2Frame, h2Parsed>>

\* the receiving side parses the serialized frame
H2Parse ==
    /\ h2Wire # <<>>
    /\ h2Parsed = NoFrame
    /\ h2Parsed' = ParseFrame(h2Wire)
    /\ UNCHANGED <<plistVars, splitVars, svcVars, lockVars, regVars, tunVars, rsdVars,
                   hbVars, sysVars, diagVars, xpcVars, muxVars, h2Frame, h2Wire>>

----------------------------------------------------------------------------
(* Plist values and the XML codec.  A PlistValue is a record: t is its      *)
(* type, n the number of an integer, s the characters of a string, keys and *)
(* kids the keys and values of a dict in insertion order, kids the items of *)
(* an array.  parsePlist is src/unnamed/part_018; xmldom's DOMParser is     *)
(* modelled by the element tree it returns.  The XML creator's source       *)
(* (plist-creator.ts) is not part of the tree: CreateXml follows the        *)
(* specification's XML form.                                                *)

Scalar(t, n, s) == [t |-> t, n |-> n, s |-> s, keys |-> <<>>, kids |-> <<>>]
Str(s) == Scalar("string", 0, s)
Integer(n) == Scalar("integer", n, <<>>)
True == Scalar("true", 0, <<>>)
Null == Scalar("null", 0, <<>>)
Dict(keys, kids) == [t |-> "dict", n |-> 0, s |-> <<>>, keys |-> keys, kids |-> kids]
Array(kids) == [t |-> "array", n |-> 0, s |-> <<>>, keys |-> <<>>, kids |-> kids]
NoValue == Scalar("none", 0, <<>>)
ThrownValue == Scalar("thrown", 0, <<>>)

PlistKeys == {<<"a">>, <<"b">>}
PlistScalars == {Str(<<"x">>), Integer(42), True}

\* the dicts with at most n entries, distinct keys, and values from vals
DictsOver(vals, n) ==
    {Dict(<<>>, <<>>)}
      \cup {Dict(<<k>>, <<v>>) : k \in PlistKeys, v \in vals}
      \cup (IF n < 2 THEN {}
            ELSE {Dict(<<k[1], k[2]>>, <<v[1], v[2]>>) :
                     k \in {p \in PlistKeys \X PlistKeys : p[1] # p[2]},
                     v \in vals \X vals})

ArraysOver(vals) == {Array(<<>>)} \cup {Array(<<v>>) : v \in vals}

\* the values nested in the root: scalars, dicts of scalars, and arrays of
\* a scalar or of a one-entry dict
NestedValues ==
    PlistScalars \cup DictsOver(PlistScalars, MaxEntries)
      \cup ArraysOver(PlistScalars \cup DictsOver(PlistScalars, 1))

\* the values given to the creators: dicts of nested values
PlistValues == DictsOver(NestedValues, MaxEntries)

\* ---- the XML document, as the element tree DOMParser builds from it

Element(name, text, children) == [name |-> name, text |-> text, children |-> children]
NoElement == Element("", <<>>, <<>>)

\* the decimal notation of a natural number
RECURSIVE ToDecimal(_)
ToDecimal(n) ==
    LET digit == <<"0", "1", "2", "3", "4", "5", "6", "7", "8", "9">>[(n % 10) + 1]
    IN IF n < 10 THEN <<digit>> ELSE Append(ToDecimal(n \div 10), digit)

RECURSIVE CreateXmlValue(_)
CreateXmlValue(v) ==
    CASE v.t = "dict" ->
            Element("dict", <<>>,
                    [i \in 1..(2 * Len(v.keys)) |->
                        IF i % 2 = 1
                        THEN Element("key", v.keys[(i + 1) \div 2], <<>>)
                        ELSE CreateXmlValue(v.kids[i \div 2])])
      [] v.t = "array" ->
            Element("array", <<>>, [i \in 1..Len(v.kids) |-> CreateXmlValue(v.kids[i])])
      [] v.t = "string" -> Element("string", v.s, <<>>)
      [] v.t = "integer" -> Element("integer", ToDecimal(v.n), <<>>)
      [] v.t = "true" -> Element("true", <<>>, <<>>)

\* createPlist(obj): the <plist version="1.0"> root around the value
CreateXml(v) == Element("plist", <<>>, <<CreateXmlValue(v)>>)

\* ---- parsePlist

\* node.getElementsByTagName(name): the descendants of node with that name,
\* in document order, each with its next element sibling (NoElement when it
\* is the last child)
RECURSIVE GetElementsByTagName(_, _)
GetElementsByTagName(node, name) ==
    LET RECURSIVE From(_)
        From(i) ==
            IF i > Len(node.children) THEN <<>>
            ELSE (IF node.children[i].name = name
                  THEN <<[element |-> node.children[i],
                          nextSibling |-> IF i < Len(node.children)
                                          THEN node.children[i + 1] ELSE NoElement]>>
                  ELSE <<>>)
                   \o GetElementsByTagName(node.children[i], name) \o From(i + 1)
    IN From(1)

\* obj[keyName] = value on an object whose properties are keys and kids
SetProperty(obj, keyName, value) ==
    IF \E i \in 1..Len(obj.keys) : obj.keys[i] = keyName
    THEN [obj EXCEPT !.kids = [i \in 1..Len(obj.keys) |->
                                  IF obj.keys[i] = keyName THEN value ELSE obj.kids[i]]]
    ELSE [obj EXCEPT !.keys = Append(@, keyName), !.kids = Append(@, value)]

RECURSIVE ParseNode(_), ParseDict(_), ParseArray(_)
\* parseNode, for the elements the creator emits
ParseNode(node) ==
    CASE node.name = "dict" -> ParseDict(node)
      [] node.name = "array" -> ParseArray(node)
      [] node.name = "string" -> Str(node.text)
      [] node.name = "integer" -> Integer(ParseInt(node.text))
      [] node.name = "true" -> True
      [] OTHER -> Null

\* parseDict: every 'key' element below dictNode sets a property
ParseDict(dictNode) ==
    LET keys == GetElementsByTagName(dictNode, "key")
        RECURSIVE Fill(_, _)
        Fill(obj, i) ==
            IF i > Len(keys) THEN obj
            ELSE IF keys[i].nextSibling = NoElement THEN Fill(obj, i + 1)
            ELSE Fill(SetProperty(obj, keys[i].element.text,
                                  ParseNode(keys[i].nextSibling)), i + 1)
    IN Fill(Dict(<<>>, <<>>), 1)

\* parseArray
ParseArray(arrayNode) ==
    Array([i \in 1..Len(arrayNode.children) |-> ParseNode(arrayNode.children[i])])

\* parsePlist, from the document on: the first 'dict' element is the root
ParseXml(doc) ==
    LET dicts == GetElementsByTagName(doc, "dict")
    IN IF dicts # <<>> THEN ParseDict(dicts[1].element) ELSE ThrownValue

\* v and p have the same type and contents, dict keys compared as a set
RECURSIVE SameValue(_, _)
SameValue(v, p) ==
    /\ v.t = p.t /\ v.n = p.n /\ v.s = p.s
    /\ Len(v.kids) = Len(p.kids)
    /\ IF v.t = "dict"
       THEN /\ {v.keys[i] : i \in 1..Len(v.keys)} = {p.keys[i] : i \in 1..Len(p.keys)}
            /\ \A i \in 1..Len(v.keys), j \in 1..Len(p.keys) :
                  v.keys[i] = p.keys[j] => SameValue(v.kids[i], p.kids[j])
       ELSE \A i \in 1..Len(v.kids) : SameValue(v.kids[i], p.kids[i])

PlistIdle ==
    /\ plValue = NoValue
    /\ plDoc = NoElement
    /\ plParsed = NoValue
    /\ plBuffer = <<>>
    /\ plBinaryParsed = NoValue
    /\ plUnifiedParsed = NoValue

PlistXmlInit ==
    /\ plValue \in PlistValues
    /\ plDoc = NoElement
    /\ plParsed = NoValue
    /\ plBuffer = <<>>
    /\ plBinaryParsed = NoValue
    /\ plUnifiedParsed = NoValue

\* createPlist(plValue)
PlistCreateXml ==
    /\ plValue # NoValue
    /\ plDoc = NoElement
    /\ plDoc' = CreateXml(plValue)
    /\ UNCHANGED <<splitVars, svcVars, lockVars, regVars, tunVars, rsdVars,
                   hbVars, sysVars, diagVars, xpcVars, muxVars, h2Vars,
                   plValue, plParsed, plBuffer, plBinaryParsed, plUnifiedParsed>>

\* parsePlist of the document created
PlistParseXml ==
    /\ plDoc # NoElement
    /\ plParsed = NoValue
    /\ plParsed' = ParseXml(plDoc)
    /\ UNCHANGED <<splitVars, svcVars, lockVars, regVars, tunVars, rsdVars,
                   hbVars, sysVars, diagVars, xpcVars, muxVars, h2Vars,
                   plValue, plDoc, plBuffer, plBinaryParsed, plUnifiedParsed>>

----------------------------------------------------------------------------
(* The binary plist codec: createBinaryPlist                                *)
(* (src/src/lib/Plist/binary-plist-creator.ts) and BinaryPlistParser        *)
(* (src/src/lib/plist/binary-plist-parser.ts), byte by byte.  A Buffer is a *)
(* sequence of bytes; offsets into it count from 0.  Numbers stay below     *)
(* 2^31, so the creator's 64-bit integer branch and its 8-byte sizes are    *)
(* outside the values drawn.                                                *)

False == Scalar("false", 0, <<>>)
Undefined == Scalar("undefined", 0, <<>>)
\* a number read as a double, a Date and a Buffer: their contents are not kept
Real == Scalar("real", 0, <<>>)
Date == Scalar("date", 0, <<>>)
Data == Scalar("data", 0, <<>>)

\* ---- characters and their UTF-16 code units
PlistChars == {"a", "b", "x", "U+00E9"}
OtherChar == "U+????"
CharCode(c) ==
    CASE c = "a" -> 97 [] c = "b" -> 98 [] c = "x" -> 120 [] c = "U+00E9" -> 233
\* String.fromCharCode(code); code units outside PlistChars give OtherChar
CharOf(code) ==
    IF \E c \in PlistChars : CharCode(c) = code
    THEN CHOOSE c \in PlistChars : CharCode(c) = code
    ELSE OtherChar

BPLIST_MAGIC_AND_VERSION == <<98, 112, 108, 105, 115, 116, 48, 48>>
BPLIST_TYPE ==
    [NULL |-> 0, FALSE |-> 8, TRUE |-> 9, FILL |-> 15, INT |-> 16, REAL |-> 32,
     DATE |-> 48, DATA |-> 64, STRING_ASCII |-> 80, STRING_UNICODE |-> 96,
     UID |-> 128, ARRAY |-> 160, SET |-> 192, DICT |-> 208]
TrailerSize == 32

\* value as size big-endian bytes (writeUInt8, writeUInt16BE, writeUInt32BE,
\* writeBigUInt64BE of a number in 0 .. 2^31 - 1)
RECURSIVE WriteUIntBE(_, _)
WriteUIntBE(value, size) ==
    IF size = 0 THEN <<>>
    ELSE Append(WriteUIntBE(value \div 256, size - 1), value % 256)

\* writeInt8, writeInt16BE, writeInt32BE: two's complement
WriteIntBE(value, size) ==
    IF value >= 0 THEN WriteUIntBE(value, size)
    ELSE IF size = 1 THEN <<value + 256>>
    ELSE IF size = 2 THEN WriteUIntBE(value + 65536, 2)
    ELSE LET u == (value + 2147483647) + 1
         IN <<128 + (u \div 16777216)>> \o WriteUIntBE(u % 16777216, 3)

IsContainer(v) == v.t \in {"dict", "array"}

\* ---- createBinaryPlist

\* objectRefMap.has(value): primitives are looked up by value, arrays and
\* objects by identity (here: the path to them from the root)
RefIndex(objectTable, value, path) ==
    {i \in 1..Len(objectTable) :
        IF IsContainer(value)
        THEN IsContainer(objectTable[i].value) /\ objectTable[i].path = path
        ELSE objectTable[i].value = value}

\* objectRefMap.get(value) ?? 0
GetRef(objectTable, value, path) ==
    IF RefIndex(objectTable, value, path) = {} THEN 0
    ELSE (CHOOSE i \in RefIndex(objectTable, value, path) : TRUE) - 1

RECURSIVE CollectObjects(_, _, _)
CollectObjects(objectTable, value, path) ==
    IF RefIndex(objectTable, value, path) # {} THEN objectTable
    ELSE LET pushed1 == Append(objectTable, [value |-> value, path |-> path])
             RECURSIVE Items(_, _)
             Items(table, i) ==
                 IF i > Len(value.kids) THEN table
                 ELSE Items(CollectObjects(table, value.kids[i], Append(path, i)), i + 1)
             RECURSIVE Entries(_, _)
             Entries(table, i) ==
                 IF i > Len(value.keys) THEN table
                 ELSE Entries(CollectObjects(CollectObjects(table, Str(value.keys[i]), <<>>),
                                             value.kids[i], Append(path, i)), i + 1)
         IN CASE value.t = "array" -> Items(pushed1, 1)
              [] value.t = "dict" -> Entries(pushed1, 1)
              [] OTHER -> pushed1

CalculateMinByteSize(value) ==
    IF value < 256 THEN 1 ELSE IF value < 65536 THEN 2 ELSE 4

CreateIntHeader(value) ==
    IF value < 256 THEN <<BPLIST_TYPE.INT + 0>> \o WriteUIntBE(value, 1)
    ELSE IF value < 65536 THEN <<BPLIST_TYPE.INT + 1>> \o WriteUIntBE(value, 2)
    ELSE <<BPLIST_TYPE.INT + 2>> \o WriteUIntBE(value, 4)

\* the marker byte of an object of the given type and length
LengthHeader(type, length) ==
    IF length < 15 THEN <<type + length>>
    ELSE <<type + 15>> \o CreateIntHeader(length)

CreateObjectData(entry, objectTable, objectRefSize) ==
    LET value == entry.value
        Ref(v, p) == WriteUIntBE(GetRef(objectTable, v, p), objectRefSize)
    IN CASE value.t = "null" -> <<BPLIST_TYPE.NULL>>
         [] value.t = "false" -> <<BPLIST_TYPE.FALSE>>
         [] value.t = "true" -> <<BPLIST_TYPE.TRUE>>
         [] value.t = "integer" ->
               IF value.n >= 0 /\ value.n <= 255
               THEN <<BPLIST_TYPE.INT + 0>> \o WriteUIntBE(value.n, 1)
               ELSE IF value.n >= -128 /\ value.n <= 127
               THEN <<BPLIST_TYPE.INT + 0>> \o WriteIntBE(value.n, 1)
               ELSE IF value.n >= -32768 /\ value.n <= 32767
               THEN <<BPLIST_TYPE.INT + 1>> \o WriteIntBE(value.n, 2)
               ELSE <<BPLIST_TYPE.INT + 2>> \o WriteIntBE(value.n, 4)
         [] value.t = "string" ->
               LET isAscii == \A i \in 1..Len(value.s) : CharCode(value.s[i]) <= 127
                   stringBuffer ==
                       IF isAscii
                       THEN [i \in 1..Len(value.s) |-> CharCode(value.s[i]) % 256]
                       ELSE Concat([i \in 1..Len(value.s) |->
                                      <<CharCode(value.s[i]) % 256,
                                        CharCode(value.s[i]) \div 256>>])
               IN LengthHeader(IF isAscii THEN BPLIST_TYPE.STRING_ASCII
                                          ELSE BPLIST_TYPE.STRING_UNICODE,
                               Len(value.s)) \o stringBuffer
         [] value.t = "array" ->
               LengthHeader(BPLIST_TYPE.ARRAY, Len(value.kids))
                 \o Concat([i \in 1..Len(value.kids) |->
                              Ref(value.kids[i], Append(entry.path, i))])
         [] value.t = "dict" ->
               LengthHeader(BPLIST_TYPE.DICT, Len(value.keys))
                 \o Concat([i \in 1..Len(value.keys) |-> Ref(Str(value.keys[i]), <<>>)])
                 \o Concat([i \in 1..Len(value.keys) |->
                              Ref(value.kids[i], Append(entry.path, i))])
         [] OTHER -> <<BPLIST_TYPE.NULL>>

CreateBinaryPlist(obj) ==
    LET objectTable == CollectObjects(<<>>, obj, <<>>)
        numObjects == Len(objectTable)
        objectRefSize == CalculateMinByteSize(numObjects - 1)
        objectData == [i \in 1..numObjects |->
                          CreateObjectData(objectTable[i], objectTable, objectRefSize)]
        \* calculateObjectDataLength of the buffers pushed before object i
        objectOffsets == [i \in 1..numObjects |-> Len(Concat(SubSeq(objectData, 1, i - 1)))]
        maxOffset == Len(Concat(objectData))
        offsetSize == CalculateMinByteSize(maxOffset)
        offsetTable == Concat([i \in 1..numObjects |->
                                  WriteUIntBE(objectOffsets[i], offsetSize)])
        offsetTableOffset == Len(BPLIST_MAGIC_AND_VERSION) + maxOffset
        trailer == <<0, 0, 0, 0, 0, 0>> \o <<offsetSize, objectRefSize>>
                     \o WriteUIntBE(numObjects, 8) \o WriteUIntBE(0, 8)
                     \o WriteUIntBE(offsetTableOffset, 8)
    IN BPLIST_MAGIC_AND_VERSION \o Concat(objectData) \o offsetTable \o trailer

\* ---- BinaryPlistParser

\* the bytes offset .. offset + n - 1 are inside the buffer (a read of bytes
\* outside it throws a RangeError)
InBuffer(buf, offset, n) == offset >= 0 /\ offset + n <= Len(buf)
ReadUInt8(buf, offset) == buf[offset + 1]

\* result = (result << 8) | readUInt8(offset + i), for i < n
RECURSIVE ReadUIntBE(_, _, _)
ReadUIntBE(buf, offset, n) ==
    IF n = 0 THEN 0
    ELSE ReadUIntBE(buf, offset, n - 1) * 256 + ReadUInt8(buf, offset + n - 1)

\* Number(readBigUInt64BE(offset)) of a number below 2^31
ReadBigUInt64BE(buf, offset) == ReadUIntBE(buf, offset + 4, 4)

\* readInt8, readInt16BE, readInt32BE, Number(readBigInt64BE)
ReadIntBE(buf, offset, n) ==
    LET first == ReadUInt8(buf, offset)
    IN IF first < 128 THEN ReadUIntBE(buf, offset, n)
       ELSE IF n = 1 THEN first - 256
       ELSE IF n = 2 THEN ReadUIntBE(buf, offset, 2) - 65536
       ELSE ((first - 128) * 16777216 + ReadUIntBE(buf, offset + 1, 3)
               - 2147483647) - 1

\* an entry of _objectTable: a parsed value or a TempObject
Parsed(value) ==
    [temp |-> FALSE, type |-> "", objLength |-> 0, startOffset |-> 0, value |-> value]
TempObject(type, objLength, startOffset) ==
    [temp |-> TRUE, type |-> type, objLength |-> objLength,
     startOffset |-> startOffset, value |-> NoValue]
ThrownItem == Parsed(ThrownValue)

\* 1 << n
RECURSIVE Pow2(_)
Pow2(n) == IF n = 0 THEN 1 ELSE 2 * Pow2(n - 1)

ParseNullType(objInfo) ==
    IF objInfo = 0 THEN Null
    ELSE IF objInfo = 8 THEN False
    ELSE IF objInfo = 9 THEN True
    ELSE Null

ParseIntegerValue(buf, startOffset, intByteCount) ==
    IF intByteCount \in {1, 2, 4, 8}
    THEN IF InBuffer(buf, startOffset, intByteCount)
         THEN Parsed(Integer(ReadIntBE(buf, startOffset, intByteCount)))
         ELSE ThrownItem
    ELSE Parsed(Integer(0))

ParseRealValue(buf, startOffset, floatByteCount) ==
    IF floatByteCount \in {4, 8}
    THEN IF InBuffer(buf, startOffset, floatByteCount) THEN Parsed(Real) ELSE ThrownItem
    ELSE Parsed(Integer(0))

ParseDateValue(buf, startOffset) ==
    IF InBuffer(buf, startOffset, 8) THEN Parsed(Date) ELSE ThrownItem

ParseAsciiString(buf, startOffset, objLength) ==
    LET bytes == Slice(buf, startOffset, startOffset + objLength)
    IN Parsed(Str([i \in 1..Len(bytes) |-> CharOf(bytes[i] % 128)]))

\* each UTF-16 unit is copied as it is and the copy decoded as 'utf16le'
ParseUnicodeString(buf, startOffset, objLength) ==
    IF InBuffer(buf, startOffset, 2 * objLength)
    THEN Parsed(Str([j \in 1..objLength |->
                        CharOf(ReadUInt8(buf, startOffset + 2 * (j - 1))
                                 + 256 * ReadUInt8(buf, startOffset + 2 * (j - 1) + 1))]))
    ELSE ThrownItem

ParseUidValue(buf, startOffset, uidByteCount) ==
    IF InBuffer(buf, startOffset, uidByteCount)
    THEN Parsed(Integer(ReadUIntBE(buf, startOffset, uidByteCount)))
    ELSE ThrownItem

ParseObjectByType(buf, objType, objInfo, startOffset, objLength) ==
    CASE objType = BPLIST_TYPE.NULL -> Parsed(ParseNullType(objInfo))
      [] objType = BPLIST_TYPE.INT -> ParseIntegerValue(buf, startOffset, Pow2(objInfo))
      [] objType = BPLIST_TYPE.REAL -> ParseRealValue(buf, startOffset, Pow2(objInfo))
      [] objType = BPLIST_TYPE.DATE -> ParseDateValue(buf, startOffset)
      [] objType = BPLIST_TYPE.DATA -> Parsed(Data)
      [] objType = BPLIST_TYPE.STRING_ASCII -> ParseAsciiString(buf, startOffset, objLength)
      [] objType = BPLIST_TYPE.STRING_UNICODE -> ParseUnicodeString(buf, startOffset, objLength)
      [] objType = BPLIST_TYPE.UID -> ParseUidValue(buf, startOffset, objInfo + 1)
      [] objType = BPLIST_TYPE.ARRAY -> TempObject("array", objLength, startOffset)
      [] objType = BPLIST_TYPE.DICT -> TempObject("dict", objLength, startOffset)
      [] OTHER -> ThrownItem

\* one round of the loop of _parseObjects, for the object at objOffset
ParseObject(buf, objOffset) ==
    IF ~InBuffer(buf, objOffset, 1) THEN ThrownItem
    ELSE LET marker == ReadUInt8(buf, objOffset)
             objType == (marker \div 16) * 16
             objInfo == marker % 16
         IN IF objInfo # 15
            THEN ParseObjectByType(buf, objType, objInfo, objOffset + 1, objInfo)
            ELSE IF ~InBuffer(buf, objOffset + 1, 1) THEN ThrownItem
            ELSE LET intMarker == ReadUInt8(buf, objOffset + 1)
                     intByteCount == Pow2(intMarker % 16)
                 IN IF (intMarker \div 16) * 16 # BPLIST_TYPE.INT
                       \/ ~InBuffer(buf, objOffset + 2, intByteCount)
                    THEN ThrownItem
                    ELSE ParseObjectByType(buf, objType, objInfo,
                                           objOffset + 2 + intByteCount,
                                           ReadUIntBE(buf, objOffset + 2, intByteCount))

\* _objectTable[refIdx], undefined beyond the table
TableAt(table, refIdx) ==
    IF refIdx + 1 \in 1..Len(table) THEN table[refIdx + 1] ELSE Parsed(Undefined)

ResolveArrayReferences(buf, objectRefSize, table, obj) ==
    IF ~InBuffer(buf, obj.startOffset, obj.objLength * objectRefSize) THEN ThrownItem
    ELSE LET refValue(j) ==
                 TableAt(table, ReadUIntBE(buf, obj.startOffset + (j - 1) * objectRefSize,
                                           objectRefSize))
             RECURSIVE Push(_, _)
             Push(array, j) ==
                 IF j > obj.objLength THEN array
                 ELSE Push(IF refValue(j).temp THEN array
                           ELSE Append(array, refValue(j).value), j + 1)
         IN Parsed(Array(Push(<<>>, 1)))

ResolveDictReferences(buf, objectRefSize, table, obj) ==
    IF ~InBuffer(buf, obj.startOffset, 2 * obj.objLength * objectRefSize) THEN ThrownItem
    ELSE LET key(j) ==
                 TableAt(table, ReadUIntBE(buf, obj.startOffset + (j - 1) * objectRefSize,
                                           objectRefSize))
             value(j) ==
                 TableAt(table, ReadUIntBE(buf, obj.startOffset
                                             + (obj.objLength + j - 1) * objectRefSize,
                                           objectRefSize))
             RECURSIVE Put(_, _)
             Put(dict, j) ==
                 IF j > obj.objLength THEN dict
                 ELSE Put(IF value(j).temp THEN dict
                          ELSE SetProperty(dict, key(j).value.s, value(j).value), j + 1)
         IN IF \E j \in 1..obj.objLength : key(j).temp \/ key(j).value.t # "string"
            THEN ThrownItem
            ELSE Parsed(Put(Dict(<<>>, <<>>), 1))

\* _resolveReferences: the table entries in index order, each resolved
\* against the table as it is at that moment
RECURSIVE ResolveReferences(_, _, _, _)
ResolveReferences(buf, objectRefSize, table, i) ==
    IF i > Len(table) THEN table
    ELSE LET obj == table[i]
             resolved ==
                 IF ~obj.temp THEN obj
                 ELSE IF obj.type = "array"
                 THEN ResolveArrayReferences(buf, objectRefSize, table, obj)
                 ELSE ResolveDictReferences(buf, objectRefSize, table, obj)
         IN ResolveReferences(buf, objectRefSize, [table EXCEPT ![i] = resolved], i + 1)

ConvertArrayToDict(table) ==
    LET RECURSIVE Pairs(_, _)
        Pairs(result, i) ==
            IF i + 1 > Len(table) THEN result
            ELSE Pairs(IF /\ i + 2 <= Len(table)
                          /\ ~table[i + 1].temp /\ table[i + 1].value.t = "string"
                          /\ ~table[i + 2].temp
                       THEN SetProperty(result, table[i + 1].value.s, table[i + 2].value)
                       ELSE result, i + 2)
    IN Pairs(Dict(<<>>, <<>>), 1)

HandleTopObject(table, topObject) ==
    IF /\ topObject = 0
       /\ Len(table) > 1
       /\ ~table[1].temp
       /\ table[1].value.t \in {"dict", "array", "date"}
       /\ table[1].value.kids = <<>>
    THEN ConvertArrayToDict(table)
    ELSE TableAt(table, topObject).value

\* parse(): _validateHeader, _parseTrailer, _parseObjects,
\* _resolveReferences, _handleTopObject
ParseBinaryPlist(buf) ==
    IF Len(buf) < 8 \/ SubSeq(buf, 1, 8) # BPLIST_MAGIC_AND_VERSION THEN ThrownValue
    ELSE IF Len(buf) < TrailerSize THEN ThrownValue
    ELSE LET trailer == Len(buf) - TrailerSize
             offsetSize == ReadUInt8(buf, trailer + 6)
             objectRefSize == ReadUInt8(buf, trailer + 7)
             numObjects == ReadBigUInt64BE(buf, trailer + 8)
             topObject == ReadBigUInt64BE(buf, trailer + 16)
             offsetTableOffset == ReadBigUInt64BE(buf, trailer + 24)
             ReadOffset(index) ==
                 ReadUIntBE(buf, offsetTableOffset + index * offsetSize, offsetSize)
             parsed == [i \in 1..numObjects |->
                          IF InBuffer(buf, offsetTableOffset + (i - 1) * offsetSize, offsetSize)
                          THEN ParseObject(buf, ReadOffset(i - 1))
                          ELSE ThrownItem]
             resolved == ResolveReferences(buf, objectRefSize, parsed, 1)
         IN IF \E i \in 1..numObjects : parsed[i] = ThrownItem THEN ThrownValue
            ELSE IF \E i \in 1..numObjects : resolved[i] = ThrownItem THEN ThrownValue
            ELSE HandleTopObject(resolved, topObject)

IsBinaryPlist(buf) ==
    Len(buf) >= 8 /\ SubSeq(buf, 1, 8) = BPLIST_MAGIC_AND_VERSION

\* the unified parsePlist, for a Buffer: the binary parser when the magic is
\* there; any other bytes go to the XML parser as text, which has no root
\* dictionary when they hold no markup
ParsePlist(buf) ==
    IF IsBinaryPlist(buf) THEN ParseBinaryPlist(buf) ELSE ThrownValue

BinaryScalars ==
    {Str(<<"x">>), Str(<<"U+00E9">>), Integer(5), Integer(200), Integer(70000), True}

\* the values given to createBinaryPlist: dicts of scalars, of dicts of a
\* scalar and of arrays of a scalar or of a one-entry dict
BinaryValues ==
    DictsOver(BinaryScalars \cup DictsOver({True, Integer(5)}, 1)
                \cup ArraysOver({Integer(5)} \cup DictsOver({True}, 1)),
              MaxEntries)

PlistBinaryInit ==
    /\ plValue \in BinaryValues
    /\ plDoc = NoElement
    /\ plParsed = NoValue
    /\ plBuffer = <<>>
    /\ plBinaryParsed = NoValue
    /\ plUnifiedParsed = NoValue

\* createBinaryPlist(plValue)
PlistCreateBinary ==
    /\ plValue # NoValue
    /\ plBuffer = <<>>
    /\ plBuffer' = CreateBinaryPlist(plValue)
    /\ UNCHANGED <<splitVars, svcVars, lockVars, regVars, tunVars, rsdVars,
                   hbVars, sysVars, diagVars, xpcVars, muxVars, h2Vars,
                   plValue, plDoc, plParsed, plBinaryParsed, plUnifiedParsed>>

\* parseBinaryPlist of the buffer created
PlistParseBinary ==
    /\ plBuffer # <<>>
    /\ plBinaryParsed = NoValue
    /\ plBinaryParsed' = ParseBinaryPlist(plBuffer)
    /\ UNCHANGED <<splitVars, svcVars, lockVars, regVars, tunVars, rsdVars,
                   hbVars, sysVars, diagVars, xpcVars, muxVars, h2Vars,
                   plValue, plDoc, plParsed, plBuffer, plUnifiedParsed>>

\* the unified parsePlist of the buffer created
PlistParseUnified ==
    /\ plBuffer # <<>>
    /\ plUnifiedParsed = NoValue
    /\ plUnifiedParsed' = ParsePlist(plBuffer)
    /\ UNCHANGED <<splitVars, svcVars, lockVars, regVars, tunVars, rsdVars,
                   hbVars, sysVars, diagVars, xpcVars, muxVars, h2Vars,
                   plValue, plDoc, plParsed, plBuffer, plBinaryParsed>>

----------------------------------------------------------------------------
(* HeartbeatService.  Two sources are modelled, chosen at construction:     *)
(* "lifecycle" is the class with start(interval, blocking), stop, sendPolo  *)
(* and isRunning (src/services/ios/syslog-service/index.ts 394-524), whose  *)
(* loop is also that of monitorHeartbeat; "loop" is the class whose start   *)
(* is the bare receive-and-Polo loop (src/services/ios/heartbeat/index.ts   *)
(* 18-100).  Connections are numbered in the order startLockdownService     *)
(* makes them; 0 stands for null.  The device's messages are not told       *)
(* apart: a connection's _messageQueue is the number of messages in it.     *)

HbVariants == {"lifecycle", "loop"}
HbConns == 1..(2 * MaxStarts)
NoInterval == -1
Intervals == {NoInterval, 0, 1}

\* isRunning()
IsRunning == isHeartbeatRunning /\ hbConn # 0

\* connections made and not ended
HbOpenConns == {c \in 1..hbOpened : c \notin hbEnded}

\* interval && (Date.now() - startTime) / 1000 >= interval
IntervalElapsed == hbInterval # NoInterval /\ hbInterval # 0
                      /\ hbClock - startTime >= hbInterval

\* the head of the while loop with its first statement, this._conn.receive():
\* the position the loop is in next, for a running flag and a _conn
LoopTop(running, conn) ==
    IF hbVariant = "lifecycle" /\ ~running THEN [pc |-> "done", conn |-> 0]
    ELSE IF conn = 0 THEN [pc |-> "failed", conn |-> 0]
    ELSE [pc |-> "receiving", conn |-> conn]

\* start() from the statement after the connection is there
StartBody(conn, blocking) ==
    /\ isHeartbeatRunning' = (hbVariant = "lifecycle")
    /\ IF hbVariant = "lifecycle" /\ ~blocking
       THEN /\ hbLoop' = "returned"
            /\ loopConn' = 0
            /\ UNCHANGED startTime
       ELSE /\ startTime' = hbClock
            /\ hbLoop' = LoopTop(TRUE, conn).pc
            /\ loopConn' = LoopTop(TRUE, conn).conn

HeartbeatInit ==
    /\ hbVariant \in HbVariants
    /\ hbConn = 0
    /\ hbOpened = 0
    /\ hbEnded = {}
    /\ isHeartbeatRunning = FALSE
    /\ hbQueue = [c \in HbConns |-> 0]
    /\ hbLoop = "idle"
    /\ loopConn = 0
    /\ hbInterval = NoInterval
    /\ hbBlocking = FALSE
    /\ startTime = 0
    /\ hbClock = 0
    /\ startCalls = 0
    /\ stoppedSince = FALSE
    /\ lastConsumer = "none"

LoopActive == hbLoop \in {"receiving", "poloConnecting", "poloReceiving"}

\* start(interval, blocking) up to its first await
HbStart(interval, blocking) ==
    /\ hbLoop \in {"idle", "returned", "done", "failed"}
    /\ startCalls < MaxStarts
    /\ hbVariant = "loop" => blocking
    /\ startCalls' = startCalls + 1
    /\ stoppedSince' = FALSE
    /\ hbInterval' = interval
    /\ hbBlocking' = blocking
    /\ IF hbConn = 0
       THEN /\ hbLoop' = "connecting"
            /\ UNCHANGED <<isHeartbeatRunning, loopConn, startTime>>
       ELSE StartBody(hbConn, blocking)
    /\ UNCHANGED <<plistVars, h2Vars, muxVars, xpcVars, splitVars, svcVars, lockVars, regVars, tunVars, rsdVars,
                   sysVars, diagVars,
                   hbVariant, hbConn, hbOpened, hbEnded, hbQueue, hbClock,
                   lastConsumer>>

\* start(): connectToHeartbeatService resolved
HbConnected ==
    /\ hbLoop = "connecting"
    /\ hbOpened' = hbOpened + 1
    /\ hbConn' = hbOpened + 1
    /\ StartBody(hbOpened + 1, hbBlocking)
    /\ UNCHANGED <<plistVars, h2Vars, muxVars, xpcVars, splitVars, svcVars, lockVars, regVars, tunVars, rsdVars,
                   sysVars, diagVars,
                   hbVariant, hbEnded, hbQueue, hbInterval, hbBlocking, hbClock,
                   startCalls, stoppedSince, lastConsumer>>

\* the device writes a message on a connection it still has
DeviceSends(c) ==
    /\ c \in HbOpenConns
    /\ hbQueue[c] < MaxQueue
    /\ hbQueue' = [hbQueue EXCEPT ![c] = @ + 1]
    /\ UNCHANGED <<plistVars, h2Vars, muxVars, xpcVars, splitVars, svcVars, lockVars, regVars, tunVars, rsdVars,
                   sysVars, diagVars,
                   hbVariant, hbConn, hbOpened, hbEnded, isHeartbeatRunning,
                   hbLoop, loopConn, hbInterval, hbBlocking, startTime, hbClock,
                   startCalls, stoppedSince, lastConsumer>>

HbTick ==
    /\ hbClock < MaxHbTime
    /\ hbClock' = hbClock + 1
    /\ UNCHANGED <<plistVars, h2Vars, muxVars, xpcVars, splitVars, svcVars, lockVars, regVars, tunVars, rsdVars,
                   sysVars, diagVars,
                   hbVariant, hbConn, hbOpened, hbEnded, isHeartbeatRunning,
                   hbQueue, hbLoop, loopConn, hbInterval, hbBlocking, startTime,
                   startCalls, stoppedSince, lastConsumer>>

\* the loop's receive() resolves with a message: the interval test, then
\* sendPolo up to its first await (lifecycle) or sendPlist and the next
\* receive() (loop)
LoopReceive ==
    /\ hbLoop = "receiving"
    /\ hbQueue[loopConn] > 0
    /\ lastConsumer' = "loop"
    /\ IF IntervalElapsed
       THEN /\ hbLoop' = "done"
            /\ loopConn' = 0
            /\ hbQueue' = [hbQueue EXCEPT ![loopConn] = @ - 1]
       ELSE IF hbVariant = "loop"
       THEN /\ hbLoop' = "receiving"
            /\ hbQueue' = [hbQueue EXCEPT ![loopConn] = @ - 1]
            /\ UNCHANGED loopConn
       ELSE IF hbConn = 0
       THEN /\ hbLoop' = "poloConnecting"
            /\ loopConn' = 0
            /\ hbQueue' = [hbQueue EXCEPT ![loopConn] = @ - 1]
       ELSE /\ hbLoop' = "poloReceiving"
            /\ loopConn' = hbConn
            /\ hbQueue' = [hbQueue EXCEPT ![loopConn] = @ - 1]
    /\ UNCHANGED <<plistVars, h2Vars, muxVars, xpcVars, splitVars, svcVars, lockVars, regVars, tunVars, rsdVars,
                   sysVars, diagVars,
                   hbVariant, hbConn, hbOpened, hbEnded, isHeartbeatRunning,
                   hbInterval, hbBlocking, startTime, hbClock, startCalls,
                   stoppedSince>>

\* the loop's receive() rejects after this.timeout with nothing received
LoopReceiveTimeout ==
    /\ hbLoop = "receiving"
    /\ hbQueue[loopConn] = 0
    /\ hbLoop' = IF hbVariant = "lifecycle" /\ ~isHeartbeatRunning
                 THEN "done" ELSE "failed"
    /\ loopConn' = 0
    /\ UNCHANGED <<plistVars, h2Vars, muxVars, xpcVars, splitVars, svcVars, lockVars, regVars, tunVars, rsdVars,
                   sysVars, diagVars,
                   hbVariant, hbConn, hbOpened, hbEnded, isHeartbeatRunning,
                   hbQueue, hbInterval, hbBlocking, startTime, hbClock,
                   startCalls, stoppedSince, lastConsumer>>

\* sendPolo(): its connectToHeartbeatService resolved; sendPlistRequest
\* writes the Polo and starts to wait for a response
PoloConnected ==
    /\ hbLoop = "poloConnecting"
    /\ hbOpened' = hbOpened + 1
    /\ hbConn' = hbOpened + 1
    /\ hbLoop' = "poloReceiving"
    /\ loopConn' = hbOpened + 1
    /\ UNCHANGED <<plistVars, h2Vars, muxVars, xpcVars, splitVars, svcVars, lockVars, regVars, tunVars, rsdVars,
                   sysVars, diagVars,
                   hbVariant, hbEnded, isHeartbeatRunning, hbQueue, hbInterval,
                   hbBlocking, startTime, hbClock, startCalls, stoppedSince,
                   lastConsumer>>

\* sendPolo(): the receivePlist(500) of sendPlistRequest takes the message
\* at the head of the queue as the response to the Polo; the loop goes on
PoloReceive ==
    /\ hbLoop = "poloReceiving"
    /\ hbQueue[loopConn] > 0
    /\ hbQueue' = [hbQueue EXCEPT ![loopConn] = @ - 1]
    /\ lastConsumer' = "sendPolo"
    /\ hbLoop' = LoopTop(isHeartbeatRunning, hbConn).pc
    /\ loopConn' = LoopTop(isHeartbeatRunning, hbConn).conn
    /\ UNCHANGED <<plistVars, h2Vars, muxVars, xpcVars, splitVars, svcVars, lockVars, regVars, tunVars, rsdVars,
                   sysVars, diagVars,
                   hbVariant, hbConn, hbOpened, hbEnded, isHeartbeatRunning,
                   hbInterval, hbBlocking, startTime, hbClock, startCalls,
                   stoppedSince>>

\* sendPolo(): 'Timed out' is swallowed; the loop goes on
PoloReceiveTimeout ==
    /\ hbLoop = "poloReceiving"
    /\ hbQueue[loopConn] = 0
    /\ hbLoop' = LoopTop(isHeartbeatRunning, hbConn).pc
    /\ loopConn' = LoopTop(isHeartbeatRunning, hbConn).conn
    /\ UNCHANGED <<plistVars, h2Vars, muxVars, xpcVars, splitVars, svcVars, lockVars, regVars, tunVars, rsdVars,
                   sysVars, diagVars,
                   hbVariant, hbConn, hbOpened, hbEnded, isHeartbeatRunning,
                   hbQueue, hbInterval, hbBlocking, startTime, hbClock,
                   startCalls, stoppedSince, lastConsumer>>

\* stop(): the flag is cleared, the connection closed and forgotten
HbStop ==
    /\ hbVariant = "lifecycle"
    /\ startCalls > 0
    /\ ~stoppedSince
    /\ isHeartbeatRunning' = FALSE
    /\ hbEnded' = IF hbConn # 0 THEN hbEnded \cup {hbConn} ELSE hbEnded
    /\ hbConn' = 0
    /\ stoppedSince' = TRUE
    /\ UNCHANGED <<plistVars, h2Vars, muxVars, xpcVars, splitVars, svcVars, lockVars, regVars, tunVars, rsdVars,
                   sysVars, diagVars,
                   hbVariant, hbOpened, hbQueue, hbLoop, loopConn, hbInterval,
                   hbBlocking, startTime, hbClock, startCalls, lastConsumer>>

----------------------------------------------------------------------------
(* SyslogService (src/services/ios/syslog-service/index.ts 1-375).          *)
(* Listeners and control connections are numbered in the order they are     *)
(* made; 0 stands for null.  Packets are TCP packets whose payload carries  *)
(* no plist header, so that processTcpPacket hands them to processAsText.   *)

ASCII_PRINTABLE_MIN == 32
ASCII_PRINTABLE_MAX == 126

PacketBytes == {65, 32, 0}
Packets == UNION {[1..n -> PacketBytes] : n \in 0..MaxPacketLen}
NoPacket == <<255>>

SysCalls == 1..MaxSysStarts

IsPrintable(code) == code >= ASCII_PRINTABLE_MIN /\ code <= ASCII_PRINTABLE_MAX

PrintableCount(str) == Cardinality({i \in 1..Len(str) : IsPrintable(str[i])})

\* isMostlyPrintable: printableCount > totalLength * MIN_PRINTABLE_RATIO
IsMostlyPrintable(payload) ==
    LET str == Utf8ToString(payload)
    IN Len(str) # 0 /\ 2 * PrintableCount(str) > Len(str)

\* extractPrintableText: buffer.toString().replace(/[^\x20-\x7E]/g, '')
ExtractPrintableText(payload) ==
    SelectSeq(Utf8ToString(payload), IsPrintable)

\* message.trim(), of a text that has printable ASCII only
Trim(text) == SelectSeq(text, LAMBDA ch : ch # 32)

\* processAsText: the message events it emits for a payload
ProcessAsText(payload) ==
    LET message == ExtractPrintableText(payload)
    IN IF IsMostlyPrintable(payload)
       THEN IF Trim(message) # <<>> THEN <<message>> ELSE <<>>
       ELSE IF Trim(message) # <<>> THEN <<message>> ELSE <<>>

\* processTcpPacket, of a payload for which mightBePlist is false
ProcessTcpPacket(payload) == ProcessAsText(payload)

SysOpenConns == {c \in 1..sysOpened : c \notin sysClosed}

\* detachPacketListener
DetachedListeners == IF packetListener # 0 THEN tmListeners \ {packetListener}
                     ELSE tmListeners

SyslogInit ==
    /\ isCapturing = FALSE
    /\ packetListener = 0
    /\ tmListeners = {}
    /\ listenersMade = 0
    /\ sysConnection = 0
    /\ sysOpened = 0
    /\ sysClosed = {}
    /\ sysStart = [k \in SysCalls |-> "none"]
    /\ sysStopped = FALSE
    /\ lastPacket = NoPacket
    /\ emitted = <<>>

\* start() up to its await of startLockdownService; a capture in progress
\* is stopped first
SysStart(k) ==
    /\ sysStart[k] = "none"
    /\ \A j \in SysCalls : j < k => sysStart[j] # "none"
    /\ sysClosed' = IF isCapturing /\ sysConnection # 0
                    THEN sysClosed \cup {sysConnection} ELSE sysClosed
    /\ sysConnection' = IF isCapturing THEN 0 ELSE sysConnection
    /\ isCapturing' = TRUE
    /\ listenersMade' = listenersMade + 1
    /\ packetListener' = listenersMade + 1
    /\ tmListeners' = (IF isCapturing THEN DetachedListeners ELSE tmListeners)
                         \cup {listenersMade + 1}
    /\ sysStart' = [sysStart EXCEPT ![k] = "connecting"]
    /\ sysStopped' = FALSE
    /\ UNCHANGED <<plistVars, h2Vars, muxVars, xpcVars, splitVars, svcVars, lockVars, regVars, tunVars, rsdVars,
                   hbVars, diagVars, sysOpened, lastPacket, emitted>>

\* start(): startLockdownService resolved, StartActivity is sent
SysConnected(k) ==
    /\ sysStart[k] = "connecting"
    /\ sysOpened' = sysOpened + 1
    /\ sysConnection' = sysOpened + 1
    /\ sysStart' = [sysStart EXCEPT ![k] = "requesting"]
    /\ UNCHANGED <<plistVars, h2Vars, muxVars, xpcVars, splitVars, svcVars, lockVars, regVars, tunVars, rsdVars,
                   hbVars, diagVars, isCapturing, packetListener, tmListeners,
                   listenersMade, sysClosed, sysStopped, lastPacket, emitted>>

\* start(): the response to StartActivity arrived
SysStarted(k) ==
    /\ sysStart[k] = "requesting"
    /\ sysStart' = [sysStart EXCEPT ![k] = "done"]
    /\ UNCHANGED <<plistVars, h2Vars, muxVars, xpcVars, splitVars, svcVars, lockVars, regVars, tunVars, rsdVars,
                   hbVars, diagVars, isCapturing, packetListener, tmListeners,
                   listenersMade, sysConnection, sysOpened, sysClosed,
                   sysStopped, lastPacket, emitted>>

\* start(): startLockdownService or sendPlistRequest rejected (the catch)
SysStartFails(k) ==
    /\ sysStart[k] \in {"connecting", "requesting"}
    /\ isCapturing' = FALSE
    /\ tmListeners' = DetachedListeners
    /\ packetListener' = 0
    /\ sysStart' = [sysStart EXCEPT ![k] = "failed"]
    /\ UNCHANGED <<plistVars, h2Vars, muxVars, xpcVars, splitVars, svcVars, lockVars, regVars, tunVars, rsdVars,
                   hbVars, diagVars, listenersMade, sysConnection, sysOpened,
                   sysClosed, sysStopped, lastPacket, emitted>>

\* stop()
SysStop ==
    /\ sysStart[1] # "none"
    /\ ~sysStopped
    /\ IF ~isCapturing
       THEN UNCHANGED <<isCapturing, packetListener, tmListeners, sysConnection,
                        sysClosed>>
       ELSE /\ tmListeners' = DetachedListeners
            /\ packetListener' = 0
            /\ sysClosed' = IF sysConnection # 0
                            THEN sysClosed \cup {sysConnection} ELSE sysClosed
            /\ sysConnection' = 0
            /\ isCapturing' = FALSE
    /\ sysStopped' = TRUE
    /\ UNCHANGED <<plistVars, h2Vars, muxVars, xpcVars, splitVars, svcVars, lockVars, regVars, tunVars, rsdVars,
                   hbVars, diagVars, listenersMade, sysOpened, sysStart,
                   lastPacket, emitted>>

\* the packet source emits 'data' with a TCP packet: the registered
\* listener (there is never more than one) runs processTcpPacket
PacketArrives(payload) ==
    /\ tmListeners # {}
    /\ lastPacket' = payload
    /\ emitted' = ProcessTcpPacket(payload)
    /\ UNCHANGED <<plistVars, h2Vars, muxVars, xpcVars, splitVars, svcVars, lockVars, regVars, tunVars, rsdVars,
                   hbVars, diagVars, isCapturing, packetListener, tmListeners,
                   listenersMade, sysConnection, sysOpened, sysClosed, sysStart,
                   sysStopped>>

----------------------------------------------------------------------------
(* DiagnosticsService (src/services/ios/diagnostic-service/index.ts).  A    *)
(* call connects, sends its request and handles what sendPlistRequest       *)
(* resolved with; the shapes of that value are the inputs of the model.     *)

\* what sendPlistRequest resolved with: null (no plist could be parsed from
\* the reply), an empty array, an array whose first element is null, an
\* array whose first element is a dictionary with Status Success or with
\* another Status, or a bare dictionary
Shapes == {"null", "emptyArray", "arrayOfNull", "arraySuccess", "arrayFailure",
           "dict"}

PowerRequests == {"Restart", "Shutdown", "Sleep"}

Thrown == [kind |-> "thrown", value |-> "error"]
Returned(v) == [kind |-> "returned", value |-> v]

\* !response || !Array.isArray(response) || response.length === 0
NotANonEmptyArray(shape) == shape \in {"null", "dict", "emptyArray"}

\* mobileGestalt, from the response on
MobileGestalt(shape) ==
    IF NotANonEmptyArray(shape) THEN Thrown
    ELSE IF shape = "arrayOfNull" THEN Thrown
    ELSE IF shape = "arrayFailure" THEN Thrown
    ELSE Returned("MobileGestalt")

\* restart, shutdown and sleep, from the response on
PowerRequest(shape) ==
    IF NotANonEmptyArray(shape) THEN Returned("{}")
    ELSE IF shape = "arrayOfNull" THEN Returned("{}")
    ELSE Returned("response[0]")

\* whose plist the static lastDecodedResult holds: nobody's (null), one
\* decoded on the connection of the ioregistry call, or one decoded on
\* another connection of the process
DecodedOn == {"null", "own", "other"}

\* ioregistry, from the response on; lastDecoded is what
\* PlistServiceDecoder.lastDecodedResult holds when the call resumes
Ioregistry(shape, returnRawJson, lastDecoded) ==
    IF returnRawJson THEN Returned(IF shape = "null" THEN "null" ELSE "response")
    ELSE IF lastDecoded = "own" THEN Returned("lastDecodedResult of own connection")
    ELSE IF lastDecoded = "other" THEN Returned("lastDecodedResult of other connection")
    ELSE IF shape = "null" THEN Thrown
    ELSE IF shape = "emptyArray" THEN Returned("No data found")
    ELSE IF shape \in {"arrayOfNull", "arraySuccess", "arrayFailure"}
         THEN Returned("response")
    ELSE Returned("[response]")

NoCall == [shape |-> "none", returnRawJson |-> FALSE, pc |-> "none"]

DiagnosticsInit ==
    /\ diagCalls = <<>>
    /\ lastDecodedResult = "null"
    /\ ioCall = NoCall

\* one call of mobileGestalt
CallMobileGestalt(shape) ==
    /\ Len(diagCalls) < MaxDiagCalls
    /\ diagCalls' = Append(diagCalls, [op |-> "MobileGestalt", shape |-> shape,
                                       result |-> MobileGestalt(shape)])
    /\ UNCHANGED <<plistVars, h2Vars, muxVars, xpcVars, splitVars, svcVars, lockVars, regVars, tunVars, rsdVars,
                   hbVars, sysVars, lastDecodedResult, ioCall>>

\* one call of restart, shutdown or sleep
CallPowerRequest(op, shape) ==
    /\ Len(diagCalls) < MaxDiagCalls
    /\ diagCalls' = Append(diagCalls, [op |-> op, shape |-> shape,
                                       result |-> PowerRequest(shape)])
    /\ UNCHANGED <<plistVars, h2Vars, muxVars, xpcVars, splitVars, svcVars, lockVars, regVars, tunVars, rsdVars,
                   hbVars, sysVars, lastDecodedResult, ioCall>>

\* ioregistry up to its await of sendPlistRequest: the static is reset and
\* the request is sent
CallIoregistry(shape, returnRawJson) ==
    /\ Len(diagCalls) < MaxDiagCalls
    /\ ioCall = NoCall
    /\ lastDecodedResult' = "null"
    /\ ioCall' = [shape |-> shape, returnRawJson |-> returnRawJson, pc |-> "sent"]
    /\ UNCHANGED <<plistVars, h2Vars, muxVars, xpcVars, splitVars, svcVars, lockVars, regVars, tunVars, rsdVars,
                   hbVars, sysVars, diagCalls>>

\* PlistServiceDecoder._transform on the connection of the ioregistry call:
\* the response is decoded, stored in the static when it is an object, and
\* pushed to the connection's message queue
OwnDecoded ==
    /\ ioCall.pc = "sent"
    /\ lastDecodedResult' = IF ioCall.shape # "null" THEN "own" ELSE lastDecodedResult
    /\ ioCall' = [ioCall EXCEPT !.pc = "queued"]
    /\ UNCHANGED <<plistVars, h2Vars, muxVars, xpcVars, splitVars, svcVars, lockVars, regVars, tunVars, rsdVars,
                   hbVars, sysVars, diagCalls>>

\* PlistServiceDecoder._transform on another connection of the process: the
\* object it decoded is stored in the same static
OtherDecoded ==
    /\ lastDecodedResult # "other"
    /\ lastDecodedResult' = "other"
    /\ UNCHANGED <<plistVars, h2Vars, muxVars, xpcVars, splitVars, svcVars, lockVars, regVars, tunVars, rsdVars,
                   hbVars, sysVars, diagCalls, ioCall>>

\* ioregistry after sendPlistRequest resolved with the queued response
IoregistryResumes ==
    /\ ioCall.pc = "queued"
    /\ diagCalls' = Append(diagCalls,
                           [op |-> "IORegistry", shape |-> ioCall.shape,
                            result |-> Ioregistry(ioCall.shape, ioCall.returnRawJson,
                                                  lastDecodedResult)])
    /\ ioCall' = NoCall
    /\ UNCHANGED <<plistVars, h2Vars, muxVars, xpcVars, splitVars, svcVars, lockVars, regVars, tunVars, rsdVars,
                   hbVars, sysVars, lastDecodedResult>>

----------------------------------------------------------------------------
(* Specifications *)

SplitterIdle ==
    /\ frames = <<>> /\ stream = <<>> /\ written = 0
    /\ buffer = <<>> /\ isXmlMode = FALSE /\ pushed = <<>>

ServiceIdle == ServiceInit

LockdownIdle == LockdownInit /\ viaFactory = FALSE

RegistryIdle ==
    /\ RegistryInit
    /\ tunnelsInfo = "undefined"

TunnelIdle == TunnelInit

RsdIdle ==
    /\ catalog = <<>> /\ dataText = <<>> /\ hasServices = FALSE
    /\ services = <<>> /\ foundService = NoService

HeartbeatIdle == HeartbeatInit /\ hbVariant = "lifecycle"

SyslogIdle == SyslogInit

DiagnosticsIdle == DiagnosticsInit

OthersIdle == HeartbeatIdle /\ SyslogIdle /\ DiagnosticsIdle

EarlyIdle ==
    SplitterIdle /\ ServiceIdle /\ LockdownIdle /\ RegistryIdle /\ TunnelIdle /\ RsdIdle
      /\ OthersIdle

XpcIdle == XpcInit

MuxIdle == MuxInit

H2Idle == H2Init

LateIdle == XpcIdle /\ MuxIdle /\ H2Idle /\ PlistIdle

InitSplitter ==
    SplitterInit /\ ServiceIdle /\ LockdownIdle /\ RegistryIdle /\ TunnelIdle /\ RsdIdle
      /\ OthersIdle /\ LateIdle
InitService ==
    SplitterIdle /\ ServiceInit /\ LockdownIdle /\ RegistryIdle /\ TunnelIdle /\ RsdIdle
      /\ OthersIdle /\ LateIdle
InitLockdown ==
    SplitterIdle /\ ServiceIdle /\ LockdownInit /\ RegistryIdle /\ TunnelIdle /\ RsdIdle
      /\ OthersIdle /\ LateIdle
InitRegistry ==
    SplitterIdle /\ ServiceIdle /\ LockdownIdle /\ RegistryInit /\ TunnelIdle /\ RsdIdle
      /\ OthersIdle /\ LateIdle
InitTunnel ==
    SplitterIdle /\ ServiceIdle /\ LockdownIdle /\ RegistryIdle /\ TunnelInit /\ RsdIdle
      /\ OthersIdle /\ LateIdle
InitRsd ==
    SplitterIdle /\ ServiceIdle /\ LockdownIdle /\ RegistryIdle /\ TunnelIdle /\ RsdInit
      /\ OthersIdle /\ LateIdle

InitRaw ==
    RawInit /\ ServiceIdle /\ LockdownIdle /\ RegistryIdle /\ TunnelIdle /\ RsdIdle
      /\ OthersIdle /\ LateIdle
InitHeartbeat ==
    SplitterIdle /\ ServiceIdle /\ LockdownIdle /\ RegistryIdle /\ TunnelIdle /\ RsdIdle
      /\ HeartbeatInit /\ SyslogIdle /\ DiagnosticsIdle /\ LateIdle
InitSyslog ==
    SplitterIdle /\ ServiceIdle /\ LockdownIdle /\ RegistryIdle /\ TunnelIdle /\ RsdIdle
      /\ HeartbeatIdle /\ SyslogInit /\ DiagnosticsIdle /\ LateIdle
InitDiagnostics ==
    SplitterIdle /\ ServiceIdle /\ LockdownIdle /\ RegistryIdle /\ TunnelIdle /\ RsdIdle
      /\ HeartbeatIdle /\ SyslogIdle /\ DiagnosticsInit /\ LateIdle
InitXpc ==
    EarlyIdle /\ XpcInit /\ MuxIdle /\ H2Idle /\ PlistIdle
InitMux ==
    EarlyIdle /\ XpcIdle /\ MuxInit /\ H2Idle /\ PlistIdle
InitH2 ==
    EarlyIdle /\ XpcIdle /\ MuxIdle /\ H2Init /\ PlistIdle
InitPlistXml ==
    EarlyIdle /\ XpcIdle /\ MuxIdle /\ H2Idle /\ PlistXmlInit
InitPlistBinary ==
    EarlyIdle /\ XpcIdle /\ MuxIdle /\ H2Idle /\ PlistBinaryInit

NextSplitter ==
    \E n \in 1..(Len(stream) - written) : Write(n)

NextRaw ==
    \E n \in RawChunks : Write(n)

NextService ==
    \/ SendPlistAndReceive
    \/ \E r \in Requests : CheckInterval(r)
    \/ \E r \in Requests : Timeout(r)
    \/ \E wf \in BOOLEAN : Decode(wf)
    \/ ServiceClose

NextLockdown ==
    \/ \E rec \in {"valid", "missing", "malformed"} : GetPairRecord(rec)
    \/ \E shape \in {"ssl", "nossl", "unexpected", "timeout"} : StartSession(shape)
    \/ \E ok \in BOOLEAN : UpgradeSocketToTLS(ok)
    \/ CreateLockdownServiceByUDID
    \/ SendAndReceive
    \/ LockdownClose

HttpRequests == [method : Methods, path : Paths]

NextRegistry ==
    \/ Start
    \/ Tick
    \/ \E req \in HttpRequests : GetAllTunnels(req)
    \/ \E req \in HttpRequests : GetTunnelByUdid(req)
    \/ \E req \in HttpRequests : GetTunnelByDeviceId(req)
    \/ \E req \in HttpRequests : PutMalformedJson(req)
    \/ \E req \in HttpRequests, body \in Bodies : UpdateTunnelBegin(req, body)
    \/ \E id \in 1..MaxPuts : UpdateTunnel(id)
    \/ \E req \in HttpRequests : UnknownRoute(req)

GetTunnelCalls == [tunnel : 1..MaxTunnels, pc : {"connected", "closingRedundant"}]
CloseTunnelCalls ==
    [id : 1..MaxCloses, entry : 1..MaxTunnels, pc : {"remoteXpc", "closer"}]

NextTunnel ==
    \/ \E a \in Addresses : ConnectToTunnelLockdown(a)
    \/ \E g \in GetTunnelCalls, functional \in BOOLEAN : GetTunnel(g, functional)
    \/ \E g \in GetTunnelCalls : GetTunnelReturnExisting(g)
    \/ \E a \in Addresses : SetRemoteXpc(a)
    \/ \E a \in Addresses : CloseTunnelByAddress(a)
    \/ \E c \in CloseTunnelCalls : CloseTunnelAfterRemoteXpc(c)
    \/ \E c \in CloseTunnelCalls : CloseTunnelFinally(c)
    \/ CloseAllTunnels

NextRsd ==
    \/ OnData
    \/ \E n \in ServiceNames : FindService(n)

NextXpc ==
    \/ XpcConnect
    \/ \E s \in 1..MaxConnects : XpcOnConnect(s)
    \/ \E s \in 1..MaxConnects : XpcHandshakeResolves(s)
    \/ \E s \in 1..MaxConnects : XpcHandshakeRejects(s)
    \/ \E s \in 1..MaxConnects : XpcOnError(s)
    \/ \E s \in 1..MaxConnects : XpcOnData(s)
    \/ \E s \in 1..MaxConnects : XpcOnClose(s)
    \/ XpcClose
    \/ \E s \in 1..MaxConnects, k \in 0..MaxConnects :
          XpcCloseEnd([socket |-> s, rejects |-> k])

\* the steps the program or the event loop takes by itself: an end() that
\* was called completes, a handshake that was started settles
XpcFairness ==
    /\ WF_vars(\E s \in 1..MaxConnects, k \in 0..MaxConnects :
                  XpcCloseEnd([socket |-> s, rejects |-> k]))
    /\ WF_vars(\E s \in 1..MaxConnects :
                  XpcHandshakeResolves(s) \/ XpcHandshakeRejects(s))

NextMux ==
    \/ MuxSend
    \/ \E i \in MuxRequests : MuxOnData(i)
    \/ \E r \in MuxRequests : MuxTimeout(r)
    \/ MuxOnClose

NextH2 ==
    \/ \E streamId \in StreamIds, settings \in SettingsLists, flags \in SUBSET {"ACK"} :
          H2NewSettings(streamId, settings, flags)
    \/ \E streamId \in StreamIds, data \in FrameDatas,
          flags \in SUBSET {"END_STREAM", "PADDED"}, padLength \in PadLengths :
          H2NewData(streamId, data, flags, padLength)
    \/ \E streamId \in StreamIds, data \in FrameDatas,
          flags \in SUBSET {"END_HEADERS", "PADDED", "PRIORITY"},
          padLength \in PadLengths, dependsOn \in DependsOns,
          streamWeight \in StreamWeights, exclusive \in BOOLEAN :
          H2NewHeaders(streamId, data, flags, padLength, dependsOn, streamWeight,
                       exclusive)
    \/ H2Serialize
    \/ H2Parse

NextPlistXml ==
    \/ PlistCreateXml
    \/ PlistParseXml

NextPlistBinary ==
    \/ PlistCreateBinary
    \/ PlistParseBinary
    \/ PlistParseUnified

NextHeartbeat ==
    \/ \E interval \in Intervals, blocking \in BOOLEAN : HbStart(interval, blocking)
    \/ HbConnected
    \/ \E c \in HbConns : DeviceSends(c)
    \/ HbTick
    \/ LoopReceive
    \/ LoopReceiveTimeout
    \/ PoloConnected
    \/ PoloReceive
    \/ PoloReceiveTimeout
    \/ HbStop

\* what the event loop and the timers of receivePlist guarantee: a pending
\* connect settles, a pending receive resolves or times out
HeartbeatFairness ==
    /\ WF_vars(HbConnected) /\ WF_vars(PoloConnected)
    /\ WF_vars(LoopReceive) /\ WF_vars(LoopReceiveTimeout)
    /\ WF_vars(PoloReceive) /\ WF_vars(PoloReceiveTimeout)

NextSyslog ==
    \/ \E k \in SysCalls : SysStart(k)
    \/ \E k \in SysCalls : SysConnected(k)
    \/ \E k \in SysCalls : SysStarted(k)
    \/ \E k \in SysCalls : SysStartFails(k)
    \/ SysStop
    \/ \E payload \in Packets : PacketArrives(payload)

NextDiagnostics ==
    \/ \E shape \in Shapes : CallMobileGestalt(shape)
    \/ \E op \in PowerRequests, shape \in Shapes : CallPowerRequest(op, shape)
    \/ \E shape \in Shapes, returnRawJson \in BOOLEAN :
          CallIoregistry(shape, returnRawJson)
    \/ OwnDecoded
    \/ OtherDecoded
    \/ IoregistryResumes

SpecSplitter == InitSplitter /\ [][NextSplitter]_vars
SpecService == InitService /\ [][NextService]_vars
SpecLockdown == InitLockdown /\ [][NextLockdown]_vars
SpecRegistry == InitRegistry /\ [][NextRegistry]_vars
SpecTunnel == InitTunnel /\ [][NextTunnel]_vars
SpecRsd == InitRsd /\ [][NextRsd]_vars
SpecRaw == InitRaw /\ [][NextRaw]_vars
SpecHeartbeat == InitHeartbeat /\ [][NextHeartbeat]_vars
SpecHeartbeatFair == InitHeartbeat /\ [][NextHeartbeat]_vars /\ HeartbeatFairness
SpecSyslog == InitSyslog /\ [][NextSyslog]_vars
SpecDiagnostics == InitDiagnostics /\ [][NextDiagnostics]_vars
SpecXpc == InitXpc /\ [][NextXpc]_vars
SpecMux == InitMux /\ [][NextMux]_vars
SpecH2 == InitH2 /\ [][NextH2]_vars
SpecPlistXml == InitPlistXml /\ [][NextPlistXml]_vars
SpecPlistBinary == InitPlistBinary /\ [][NextPlistBinary]_vars
SpecXpcFair == InitXpc /\ [][NextXpc]_vars /\ XpcFairness

Init == InitService
Next == NextService
Spec == Init /\ [][Next]_vars

----------------------------------------------------------------------------
(* Claims about LengthBasedSplitter, under SpecSplitter *)

\* C1: once a stream of well-framed messages has been written to the
\* splitter, in whatever division into chunks, the messages it pushed are
\* exactly the original messages: same boundaries, content and order.
C1_ExactlyTheOriginalMessages ==
    written = Len(stream) => pushed = frames

\* C2: after each written chunk no complete message is left waiting for later
\* input: of every message whose last byte has been received, the splitter
\* has taken bytes out of its buffer (a message still wholly inside the
\* buffer has been neither emitted nor discarded).
C2_NoCompleteMessageHeldBack ==
    \A i \in 1..Len(frames) :
        FrameEnd(frames, i) <= written
            => FrameEnd(frames, i - 1) < written - Len(buffer)

----------------------------------------------------------------------------
(* Claims about PlistService, under SpecService *)

\* C3: a request/response call never resolves with a message the connection
\* had received before the request was sent (stated for callers that never
\* have two requests outstanding, as the interface requires).
C3_ResponseReceivedAfterSend ==
    \A r \in Requests :
        (serial /\ awaitState[r] = "resolved") => awaitResult[r].seq > sentAfter[r]

\* C4: after an await has timed out the connection stays usable: the next
\* request on the connection, when it resolves, resolves with the response to
\* that request.
C4_UsableAfterTimeout ==
    \A r \in Requests :
        (serial /\ afterTimeout[r] /\ awaitState[r] = "resolved")
            => awaitResult[r].re = r

\* C5: responses are delivered in the order the requests were sent: of two
\* requests on one connection, the one sent first receives the earlier
\* response.
C5_ResponsesInRequestOrder ==
    \A a, b \in Requests :
        (a < b /\ awaitState[a] = "resolved" /\ awaitState[b] = "resolved")
            => awaitResult[a].seq < awaitResult[b].seq

\* C6: closing the connection makes every await pending at that moment fail
\* with the "connection closed" error.
C6_PendingAwaitsFailOnClose ==
    \A r \in pendingAtEnd : awaitState[r] = "closed"

\* C7: a parse error on one message does not disable the connection: every
\* well-formed message the socket received, before or after the error, has
\* been decoded and delivered to the message queue.
C7_DecodingSurvivesParseError ==
    wellFormedIn = arrivals

----------------------------------------------------------------------------
(* Claims about LockdownService, under SpecLockdown *)

\* C8: once a StartSession response with EnableSessionSSL true has been
\* received, no sendAndReceive is carried on the plaintext stream.
C8_NoPlaintextAfterSslResponse ==
    \A i \in 1..Len(carried) : carried[i].afterSsl => carried[i].via = "tls"

\* C9: a missing or malformed pair record, a failed TLS negotiation or a
\* StartSession response of unexpected shape aborts the handshake: no service
\* is handed to the caller of createLockdownServiceByUDID.
C9_FailedHandshakeHandsNoService ==
    (\/ pairRecord \in {"missing", "malformed"}
     \/ tlsFailed
     \/ sessionShape = "unexpected") => ~handed

\* C10: after close() has been called, at whatever point relative to the TLS
\* upgrade and however often, neither the TLS session nor the underlying
\* stream remains open.
C10_CloseTearsDownBothStreams ==
    closeCalls > 0 => (plainEnded /\ (plistAfterTLS => tlsEnded))

----------------------------------------------------------------------------
(* Claims about TunnelRegistryServer, under SpecRegistry *)

C12_PutsSerialized ==
    listening =>
        /\ Registry = serialRegistry
        /\ \A u \in Udids :
              lastPut[u].stored # NoEntry
                 => (u \in DOMAIN Registry.tunnels
                       /\ Registry.tunnels[u] = lastPut[u].stored)
        /\ Registry.metadata = Metadata(Cardinality(DOMAIN Registry.tunnels))

\* C12 case: two PUTs for different devices were in flight together and both
\* have completed.
C12_Witness ==
    /\ overlapped
    /\ DOMAIN pendingPuts = {}
    /\ \A u \in Udids : lastPut[u].stored # NoEntry

\* C13: after a successful PUT for a udid, GET for that udid returns the
\* entry that PUT stored, and when the PUT updated an existing entry the
\* returned lastUpdated is strictly greater than its createdAt.
C13_GetReturnsStoredEntry ==
    \A u \in Udids :
        (/\ response.route = "getTunnelByUdid"
         /\ response.req.path[3] = u
         /\ lastPut[u].stored # NoEntry)
            => /\ response.status = 200
               /\ response.tunnel = lastPut[u].stored
               /\ lastPut[u].updating
                     => response.tunnel.lastUpdated > response.tunnel.createdAt

\* C14: a PUT whose body udid differs from the path udid, or whose body is
\* not JSON, is answered 400 with a JSON error body and leaves the registry
\* entries and metadata as they were.
C14_RejectedPutAnswers400Json ==
    LET r == response.req IN
    (/\ Route(r.method, r.path) = "updateTunnel"
     /\ (~r.raw.json \/ r.raw.value.udid # r.path[3]))
        => /\ response.status = 400
           /\ response.type = "json"
           /\ response.error # ""
           /\ ~response.changed

\* C15: GET /remotexpc/tunnels/device/:deviceId answers 400 whenever the
\* segment is not an integer, and 404 when it is an integer no stored entry
\* has as its deviceId.
C15_DeviceIdValidated ==
    LET r == response.req IN
    response.route = "getTunnelByDeviceId"
        => LET cs == Chars(r.path[4]) IN
           /\ ~IsIntegerSegment(cs) => response.status = 400
           /\ (IsIntegerSegment(cs) /\ FindByDeviceId(Registry, ParseInt(cs)) = {})
                 => response.status = 404

\* C16: a request to any route other than the registry endpoints is answered
\* 404 with the JSON body {error: "Not found"}.
C16_UnknownRouteJson404 ==
    LET r == response.req IN
    (r.method # "" /\ Route(r.method, r.path) = "none")
        => /\ response.status = 404
           /\ response.type = "json"
           /\ response.error = "Not found"

----------------------------------------------------------------------------
(* Claims about TunnelManagerService, under SpecTunnel *)

\* C17: whenever no getTunnel call is in progress, the only tunnel open for
\* an address (created, its closer not yet invoked) is the one registered as
\* active for it: at most one per address, no superseded or redundant
\* tunnel left open.
C17_OneOpenTunnelPerAddress ==
    getting = {} =>
        \A t \in Tunnels :
            IsOpen(t) => (/\ tunnelAddr[t] \in DOMAIN tunnelRegistry
                          /\ tunnelRegistry[tunnelAddr[t]] = t
                          /\ entryActive[t])

\* C18: closing is idempotent: however often and however interleaved
\* closeTunnelByAddress and closeAllTunnels are called, a tunnel's closer is
\* invoked at most once.
C18_CloserInvokedAtMostOnce ==
    \A t \in Tunnels : closerCalls[t] <= 1

\* C19: every tunnel whose entry closeAllTunnels removed from the registry
\* has had its closer invoked, also when getTunnel registered it while
\* closeAllTunnels was awaiting the closes.
C19_ClearedTunnelsWereClosed ==
    \A t \in cleared : closerCalls[t] > 0

----------------------------------------------------------------------------
(* Claims about extractServices, under SpecRsd *)

\* the services a list of names and ports stands for: every name that is not
\* directly followed by another name, in order, with the port that follows
\* it ("" for a name at the end)
RECURSIVE Listed(_, _)
Listed(cat, i) ==
    IF i > Len(cat) THEN <<>>
    ELSE IF cat[i].type = "port" THEN Listed(cat, i + 1)
    ELSE IF i < Len(cat) /\ cat[i + 1].type = "service" THEN Listed(cat, i + 1)
    ELSE <<[serviceName |-> cat[i].value,
            port |-> IF i < Len(cat) THEN cat[i + 1].value ELSE ""]>>
            \o Listed(cat, i + 1)

\* C20: the extracted services are, in payload order, the names paired with
\* the port that follows each; of two names in a row the first is dropped
\* and the second keeps the following port; findService returns the first
\* listed service of that name.
C20_ServicesInOrderWithPorts ==
    hasServices =>
        /\ services = Listed(catalog, 1)
        /\ foundService # NoService
              => \E i \in 1..Len(services) :
                    /\ services[i] = foundService
                    /\ \A j \in 1..(i - 1) :
                          services[j].serviceName # foundService.serviceName

\* C20 case: A, B, C with ports 1, 2, 3, and findService("com.apple.B").
C20_Witness ==
    /\ catalog = <<ServiceItem("com.apple.A"), PortItem("1"),
                   ServiceItem("com.apple.B"), PortItem("2"),
                   ServiceItem("com.apple.C"), PortItem("3")>>
    /\ Len(services) = 3
    /\ foundService = [serviceName |-> "com.apple.B", port |-> "2"]

----------------------------------------------------------------------------
(* Claims about HeartbeatService, under SpecHeartbeat and SpecHeartbeatFair *)

\* C21: while the heartbeat service runs, every message received from the
\* device is answered by its own Polo; no device message is taken off the
\* connection by anything but the loop's receive, which answers it.
C21_EveryMessageAnsweredByPolo ==
    lastConsumer # "sendPolo"

\* C22: start() leaves the service running with a connection; once stop()
\* has run, isRunning() is false and no heartbeat connection is open until
\* start() is called again.
C22_StopClearsRunningAndConnection ==
    /\ (hbLoop = "returned" /\ ~stoppedSince) => IsRunning
    /\ stoppedSince => (~IsRunning /\ HbOpenConns = {})

\* C23: when start was given an interval, the receive-and-Polo loop
\* terminates once that many seconds have elapsed since start.
C23_IntervalTerminatesLoop ==
    (LoopActive /\ hbInterval # NoInterval /\ hbClock - startTime >= hbInterval)
        ~> ~LoopActive

----------------------------------------------------------------------------
(* Claims about SyslogService, under SpecSyslog *)

\* bytes of a payload in 0x20..0x7E
PrintableBytes(payload) ==
    Cardinality({i \in 1..Len(payload) : payload[i] >= 32 /\ payload[i] <= 126})

\* C24: a message event is emitted for a TCP packet only if more than half
\* of its bytes are printable ASCII, and exactly one, carrying the packet's
\* printable bytes, for each such packet.
C24_OneMessagePerMostlyPrintablePacket ==
    lastPacket # NoPacket =>
        emitted = IF 2 * PrintableBytes(lastPacket) > Len(lastPacket)
                  THEN <<SelectSeq(lastPacket,
                                   LAMBDA b : b >= 32 /\ b <= 126)>>
                  ELSE <<>>

\* C25: once stop() has completed, no packet listener of the service is
\* registered on the packet source and no control connection the service
\* opened is open, also when stop() was called while a start() was in
\* progress.
C25_StopTearsDownListenerAndConnection ==
    sysStopped => (tmListeners = {} /\ SysOpenConns = {})

----------------------------------------------------------------------------
(* Claims about LengthBasedSplitter on streams that are not well framed,    *)
(* under SpecRaw *)

\* number of bytes that precede the first message
GarbageLen == Len(stream) - Len(Concat(frames))

SentMessages == {frames[j] : j \in 1..Len(frames)}

\* p is a part of the message f, and not all of it
ProperPiece(p, f) ==
    /\ Len(p) > 0
    /\ Len(p) < Len(f)
    /\ \E k \in 0..(Len(f) - Len(p)) : OccursAt(f, p, k)

\* C26: bytes that precede the first "<?xml" are part of no emitted
\* message, and every message that follows them is emitted.
C26_GarbageDroppedMessagesRecovered ==
    GarbageLen > 0 =>
        /\ \A i \in 1..Len(pushed) : pushed[i] \in SentMessages
        /\ written = Len(stream) => pushed = frames

\* C27: when a length prefix exceeds maxFrameLength, no emitted message is
\* an incomplete part of a message that was sent.
C27_NoPartialMessageAfterOversizePrefix ==
    (\E j \in 1..Len(frames) :
        Len(frames[j]) > DEFAULT_LENGTH_FIELD_LENGTH + MaxFrameLength)
      => \A i \in 1..Len(pushed), j \in 1..Len(frames) :
            ~ProperPiece(pushed[i], frames[j])

\* C28: a binary plist that arrives without a length prefix is emitted as
\* one message that holds the whole plist, however it is cut into chunks.
C28_BareBplistEmittedWhole ==
    StartsWith(stream, BPLIST00) =>
        /\ pushed \in {<<>>, <<stream>>}
        /\ written = Len(stream) => pushed = <<stream>>

\* C29: the bytes the splitter retains never exceed a bound set by
\* maxFrameLength: one frame of the greatest length with its length field.
C29_BufferBoundedByMaxFrameLength ==
    Len(buffer) <= DEFAULT_LENGTH_FIELD_LENGTH + MaxFrameLength

----------------------------------------------------------------------------
(* Claims about DiagnosticsService, under SpecDiagnostics *)

\* responses that are no dictionary and hold none
UnexpectedShapes == {"null", "emptyArray", "arrayOfNull"}

\* C30: a call whose response has an unexpected shape fails with an error;
\* it never returns as though it had succeeded.
C30_UnexpectedShapeFails ==
    \A i \in 1..Len(diagCalls) :
        diagCalls[i].shape \in UnexpectedShapes
            => diagCalls[i].result.kind = "thrown"

\* C36: getTunnelByAddress never hands out a tunnel whose closer has already
\* been invoked: whenever it would return a tunnel for an address, also while
\* a closeTunnelByAddress for that address is in progress, that tunnel's
\* closer has not been invoked.
C36_HandedOutTunnelNotClosed ==
    \A a \in Addresses :
        GetTunnelByAddress(a) # NoTunnel => IsOpen(GetTunnelByAddress(a))

\* C37: when a start() of the SyslogService has failed, every earlier start()
\* has settled and no later one was made, the service is fully stopped: it is
\* not capturing, no packet listener is registered on the packet source and
\* no control connection is open.
C37_FailedStartLeavesServiceStopped ==
    \A k \in SysCalls :
        (/\ sysStart[k] = "failed"
         /\ \A j \in SysCalls : j < k => sysStart[j] \in {"done", "failed"}
         /\ \A j \in SysCalls : j > k => sysStart[j] = "none")
        => (~isCapturing /\ tmListeners = {} /\ SysOpenConns = {})

\* C38: ioregistry returns only data decoded on its own connection: no call
\* results in a plist that was decoded on another connection.
C38_IoregistryReturnsOwnData ==
    \A i \in 1..Len(diagCalls) :
        diagCalls[i].op = "IORegistry"
            => diagCalls[i].result # Returned("lastDecodedResult of other connection")

\* C39: connect() always settles: a promise returned by connect() that is
\* pending is eventually resolved or rejected.
C39_ConnectSettles ==
    \A k \in 1..MaxConnects : XpcPending(k) ~> ~XpcPending(k)

\* C40: a RemoteXpcConnection has at most one socket open at any time.
C40_AtMostOneSocket == Cardinality(XpcOpenSockets) <= 1

\* C35: usbmux tags increase per connection and responses are matched by
\* tag: every request sent on the socket carries a tag greater than that of
\* every earlier request, and a request resolves only with the response that
\* answers it and echoes its tag.
C35_TagsIncreaseAndMatch ==
    /\ \A i, j \in 1..Len(muxSent) : i < j => muxSent[i] < muxSent[j]
    /\ \A r \in 1..Len(muxSent) :
          muxOutcome[r] = "resolved"
              => muxResolvedWith[r] = [answers |-> r, tag |-> muxSent[r]]

\* C33: HTTP/2 frames satisfy the stream-id rule: a frame that was
\* constructed and serialized has stream id zero when it is a SETTINGS frame
\* and a non-zero stream id when it is a DATA or HEADERS frame.
C33_StreamIdRule ==
    h2Wire # <<>> =>
        /\ h2Frame.class = "SettingsFrame" => h2Frame.streamId = 0
        /\ h2Frame.class \in {"DataFrame", "HeadersFrame"} => h2Frame.streamId # 0

\* the case of the round trip: a padded DATA frame or a HEADERS frame with
\* priority was serialized and the bytes were parsed
PaddingOrPriorityParsed ==
    /\ h2Parsed # NoFrame
    /\ \/ h2Frame.class = "DataFrame" /\ "PADDED" \in h2Frame.flags
       \/ h2Frame.class = "HeadersFrame" /\ "PRIORITY" \in h2Frame.flags

\* C34: the serializer round-trips DATA padding and HEADERS priority bits:
\* parsing the serialized padded DATA frame or HEADERS frame with priority
\* yields the original data, pad length, flags and priority fields.
C34_PaddingAndPriorityRoundTrip ==
    PaddingOrPriorityParsed =>
        /\ h2Parsed.data = h2Frame.data
        /\ h2Parsed.padLength = h2Frame.padLength
        /\ h2Parsed.flags = h2Frame.flags
        /\ h2Parsed.dependsOn = h2Frame.dependsOn
        /\ h2Parsed.streamWeight = h2Frame.streamWeight
        /\ h2Parsed.exclusive = h2Frame.exclusive

\* C31: parseXml(createXml(v)) = v for every representable PlistValue v,
\* dictionaries nested inside dictionaries and arrays included: the parsed
\* value has exactly the keys and values of v at every nesting level.
C31_XmlRoundTrip ==
    plParsed # NoValue => SameValue(plValue, plParsed)

\* C32: parseBinary(createBinary(v)) = v and parsePlist(createBinary(v)) = v
\* (format auto-detection) for every representable PlistValue v: integers
\* of every magnitude, non-ASCII strings, arrays and dicts nested inside one
\* another.
C32_BinaryRoundTrip ==
    /\ plBinaryParsed # NoValue => SameValue(plValue, plBinaryParsed)
    /\ plUnifiedParsed # NoValue => SameValue(plValue, plUnifiedParsed)

====
